---- MODULE Spec2Model ----
(***************************************************************************)
(* Model of the canvas export pipeline of namelistica:                     *)
(*   - ExportManager (exportManager.js) with the exporters it drives       *)
(*     (enhancedGifExporter.js, realGifExporter.js, canvasRecorder.js,     *)
(*     videoRecorder.js, videoConverter.js);                               *)
(*   - CanvasExportSystem of exportTester.js (PNG/JPG/GIF/MP4);            *)
(*   - CanvasExportSystem of canvasExportSystem.js (PNG only).             *)
(* Every async function is cut at its awaits: one action runs the code     *)
(* between two suspension points, as the single-threaded event loop does.  *)
(* Progress values are fixed-point numbers: 1.0 is written Scale.          *)
(***************************************************************************)
EXTENDS Integers, Sequences, FiniteSets, TLC

VARIABLES
    manager,    \* the ExportManager singleton: exportInfo objects, activeExports, exportHistory
    calls,      \* the export calls made on the ExportManager, one frame per call
    env,        \* what the browser offers: MediaRecorder, WebCodecs, a global GIF constructor
    testerSystem,   \* the CanvasExportSystem singleton of exportTester.js
    testerCall,     \* the export call in progress on it
    pngSystem,      \* the CanvasExportSystem singleton of canvasExportSystem.js
    pngCall,        \* the exportPNG call in progress on it
    resolution,     \* one canvas input and what the resolver or the debugger made of it
    validation,     \* one canvas input with its surface and what a validator made of it
    recorder,       \* an EnhancedGIFExporter recording by frame capture
    encoder,        \* a GIFEncoder and the calls made on it
    canvasManager,  \* the CanvasContextManager singleton and the clock it reads
    videoRecorder,  \* one exportCanvasAsVideo call with its VideoRecorder and MediaRecorder
    codecChoice,    \* the codecs a WebCodecsHandler detected and one getBestCodec call
    strategyChoice, \* a canvas type, the features detected and two selectRecordingStrategy calls
    frameLoop,      \* one GIF capture loop of RealGIFExporter or of exportTester.js's exportGIF
    resolverCache,  \* a CanvasReferenceResolver with its resolverCache and the clock it reads
    converter,      \* a CanvasValidator with its conversionCache, the canvases it is given, the clock
    embeddedGif     \* an EmbeddedGIF of gifLibraryHandler.js and the callbacks it has scheduled

managerVars == <<manager, calls>>
testerVars == <<testerSystem, testerCall>>
pngVars == <<pngSystem, pngCall>>
baseServiceVars == <<canvasManager, videoRecorder, codecChoice, strategyChoice>>
extraVars == <<frameLoop, resolverCache, converter, embeddedGif>>
serviceVars == <<baseServiceVars, extraVars>>
utilVars == <<resolution, validation, recorder, encoder, serviceVars>>

vars == <<manager, calls, env, testerSystem, testerCall, pngSystem, pngCall, resolution, validation,
          recorder, encoder, canvasManager, videoRecorder, codecChoice, strategyChoice, extraVars>>

(***************************************************************************)
(* Bounds of the model.                                                    *)
(***************************************************************************)
MaxCalls == 2          \* export calls made on the ExportManager in one run
MaxTicks == 2          \* frame ticks of one capture loop (duration * fps)
MaxExports == 52       \* exports made one after the other in SpecHistory
MaxFailures == 1       \* how many of them fail in SpecHistory
MaxTesterExports == 3  \* jobs started on the CanvasExportSystem of exportTester.js
MaxFrameCount == 2     \* frameCount of a GIF export on it
MaxPngExports == 102   \* exports made one after the other in SpecPng
MaxPngFailures == 1    \* how many of them fail in SpecPng
MaxDepth == 12         \* wrappers around the innermost value of a canvas input
StackDepth == 14       \* nested calls of resolveCanvasReference the call stack holds

(***************************************************************************)
(* Program constants.                                                      *)
(***************************************************************************)
maxHistorySize == 50   \* ExportManager.maxHistorySize
CES_maxHistorySize == 100   \* CanvasExportSystem.maxHistorySize, exportTester.js
PNG_maxHistorySize == 100   \* CanvasExportSystem.maxHistorySize, canvasExportSystem.js
maxSteps == 10         \* CanvasDebugger.analyzeResolution

Scale == 10 * 10       \* fixed-point unit of a progress value: 1.0 == Scale

Formats == {"png", "jpg", "gif", "mp4"}

Min(a, b) == IF a < b THEN a ELSE b

Range(s) == {s[i] : i \in DOMAIN s}

IsNonDecreasing(s) == \A i \in 1..(Len(s) - 1) : s[i] <= s[i + 1]

(***************************************************************************)
(* ExportManager: the job bookkeeping.  An export id is a reference to the *)
(* exportInfo object made by startExport: activeExports and exportHistory  *)
(* hold references to the same object, so both are kept as ids into        *)
(* manager.exportInfo.                                                     *)
(***************************************************************************)

\* `${format}-${Date.now()}-${random}`: ids are taken to be distinct (time stamp
\* plus nine random base-36 digits); the id is the position of the new object.
generateExportId(m) == Len(m.exportInfo) + 1

startExport(m, exportId, format) ==
    [m EXCEPT !.exportInfo = Append(@, [format |-> format, status |-> "started",
                                        progress |-> 0, stored |-> <<>>]),
              !.activeExports = @ \cup {exportId}]

\* exportInfo.stored is the sequence of values this function has written to
\* exportInfo.progress (a history of the field, kept for the progress claims).
updateExportProgress(m, exportId, progress) ==
    IF exportId \in m.activeExports
    THEN [m EXCEPT !.exportInfo[exportId].progress = progress,
                   !.exportInfo[exportId].status = "in-progress",
                   !.exportInfo[exportId].stored = Append(@, progress)]
    ELSE m

\* addToHistory with push in place of unshift
addToHistory_push(history, exportId) ==
    LET h == Append(history, exportId)
    IN  IF Len(h) > maxHistorySize THEN SubSeq(h, 1, maxHistorySize) ELSE h

addToHistory(history, exportId) ==
    LET h == <<exportId>> \o history
    IN  IF Len(h) > maxHistorySize THEN SubSeq(h, 1, maxHistorySize) ELSE h

\* completeExport without activeExports.delete
completeExport_keepsActive(m, exportId) ==
    IF exportId \in m.activeExports
    THEN [m EXCEPT !.exportInfo[exportId].status = "completed",
                   !.exportHistory = addToHistory(@, exportId)]
    ELSE m

completeExport(m, exportId) ==
    IF exportId \in m.activeExports
    THEN [m EXCEPT !.exportInfo[exportId].status = "completed",
                   !.exportHistory = addToHistory(@, exportId),
                   !.activeExports = @ \ {exportId}]
    ELSE m

failExport(m, exportId) ==
    IF exportId \in m.activeExports
    THEN [m EXCEPT !.exportInfo[exportId].status = "failed",
                   !.exportHistory = addToHistory(@, exportId),
                   !.activeExports = @ \ {exportId}]
    ELSE m

(***************************************************************************)
(* The calls.  A frame is one invocation of exportPNG / exportJPG /        *)
(* exportGIF / exportMP4 on the ExportManager:                             *)
(*   type       what resolveAndValidateCanvas makes of the input ("none":  *)
(*              it cannot be resolved or validated)                        *)
(*   ticks      floor(duration / 1000 * fps) of the options                *)
(*   out        the state of the returned promise                          *)
(*   tried      the exporters run so far, in order                         *)
(*   strategies the list built by selectRecordingStrategy, attempted the   *)
(*              recording strategies the EnhancedGIFExporter has executed  *)
(*   reported   the values passed to gifOptions.onProgress, in order       *)
(*   stdRun     which invocation of exportCanvasAsGIF is running           *)
(***************************************************************************)
CanvasTypes == {"html-canvas", "offscreen-canvas"}

IdleCall ==
    [op |-> "none", pc |-> "idle", id |-> 0, type |-> "none", ticks |-> 0,
     out |-> "none", format |-> "none", blob |-> "none", error |-> "none",
     tried |-> <<>>, strategies |-> <<>>, attempted |-> <<>>, reported |-> <<>>,
     stdRun |-> 0, i |-> 0, frames |-> 0, isRecording |-> FALSE]

\* HTMLCanvasElement has toDataURL and captureStream; OffscreenCanvas has neither.
HasToDataURL(type) == type = "html-canvas"

\* the promise of the call resolves with an artifact
Resolved(f, format, blob) ==
    [f EXCEPT !.pc = "done", !.out = "resolved", !.format = format, !.blob = blob]

\* the promise of the call rejects: the outer catch has run failExport
Rejected(f, error) ==
    [f EXCEPT !.pc = "done", !.out = "rejected", !.error = error]

\* an exception was thrown inside an event callback (or the event never comes):
\* nothing is left that could settle the promise the call awaits
Hung(f, error) ==
    [f EXCEPT !.pc = "hung", !.error = error]

\* gifOptions.onProgress of exportGIF: progress is a fraction, the job stores 10 + progress * 80
onProgress(m, f, progress) ==
    updateExportProgress(m, f.id, 10 * Scale + progress * 80)

Report(f, progress) == [f EXCEPT !.reported = Append(@, progress)]

(***************************************************************************)
(* Entry of the four export methods: generateExportId, startExport, and    *)
(* the call of resolveAndValidateCanvas, up to the first await.            *)
(***************************************************************************)
CallExport(c, op, type, ticks) ==
    /\ calls[c].pc = "idle"
    /\ \A d \in 1..(c - 1) : calls[d].pc # "idle"
    /\ LET id == generateExportId(manager)
       IN  /\ manager' = startExport(manager, id, op)
           /\ calls' = [calls EXCEPT ![c] =
                  [IdleCall EXCEPT !.op = op, !.pc = "resolving", !.id = id,
                                   !.type = type, !.ticks = ticks, !.out = "pending"]]
    /\ UNCHANGED <<env, utilVars, testerVars, pngVars>>

(***************************************************************************)
(* exportPNG and exportJPG.                                                *)
(***************************************************************************)
Still_AfterResolve(c) ==
    LET f == calls[c] IN
    /\ f.pc = "resolving" /\ f.op \in {"png", "jpg"}
    /\ IF f.type = "none"
       THEN /\ manager' = failExport(manager, f.id)
            /\ calls' = [calls EXCEPT ![c] = Rejected(f, "Canvas resolution failed")]
       ELSE /\ manager' = updateExportProgress(manager, f.id, 25 * Scale)
            /\ calls' = [calls EXCEPT ![c].pc = "extracting"]
    /\ UNCHANGED <<env, utilVars, testerVars, pngVars>>

\* extractImageDataWithFallbacks: some strategy returns a data URL, or all four fail
Still_AfterExtract(c) ==
    LET f == calls[c] IN
    /\ f.pc = "extracting"
    /\ \E ok \in BOOLEAN :
        IF ok
        THEN /\ manager' = updateExportProgress(manager, f.id, 75 * Scale)
             /\ calls' = [calls EXCEPT ![c].pc = "toBlob"]
        ELSE /\ manager' = failExport(manager, f.id)
             /\ calls' = [calls EXCEPT ![c] = Rejected(f, "All image extraction strategies failed")]
    /\ UNCHANGED <<env, utilVars, testerVars, pngVars>>

\* dataURLToBlob (fetch of the data URL), then completeExport
Still_AfterBlob(c) ==
    LET f == calls[c] IN
    /\ f.pc = "toBlob"
    /\ \E ok \in BOOLEAN :
        IF ok
        THEN /\ manager' = completeExport(updateExportProgress(manager, f.id, 100 * Scale), f.id)
             /\ calls' = [calls EXCEPT ![c] = Resolved(f, f.op, f.op)]
        ELSE /\ manager' = failExport(manager, f.id)
             /\ calls' = [calls EXCEPT ![c] = Rejected(f, "fetch failed")]
    /\ UNCHANGED <<env, utilVars, testerVars, pngVars>>

(***************************************************************************)
(* exportGIF.  Its tail, run when some exporter has returned a blob:       *)
(* updateExportProgress(95), the PNG fallback for a missing blob,          *)
(* updateExportProgress(100), the format read off blob.type, and           *)
(* completeExport.  A blob is written by its media type: "gif", "video".   *)
(***************************************************************************)
GIF_Finish(m, f, blob) ==
    LET m95 == updateExportProgress(m, f.id, 95 * Scale)
    IN  IF blob = "none"
        THEN <<m95, [f EXCEPT !.pc = "png_fallback"]>>
        ELSE <<completeExport(updateExportProgress(m95, f.id, 100 * Scale), f.id),
               Resolved(f, IF blob = "gif" THEN "gif" ELSE "png", blob)>>

\* a rejection that reaches the outer catch of exportGIF / exportMP4
Export_Throw(m, f, error) ==
    <<failExport(m, f.id), Rejected(f, error)>>

(***************************************************************************)
(* EnhancedGIFExporter.                                                    *)
(***************************************************************************)
\* what environmentDetector.isSupported answers for the features selectRecordingStrategy asks
Features == [mediaRecorder : BOOLEAN, captureStream : BOOLEAN, webCodecs : BOOLEAN,
             videoEncoder : BOOLEAN]

\* web-codecs pushed after frame-capture
StrategyList_codecsLast(type, features) ==
    LET s1 == IF features.mediaRecorder /\ features.captureStream /\ type = "html-canvas"
              THEN <<"media-recorder">> ELSE <<>>
        s2 == IF features.webCodecs /\ features.videoEncoder THEN <<"web-codecs">> ELSE <<>>
        s3 == s1 \o <<"frame-capture">> \o s2
    IN  IF type = "webgl-context" THEN <<"webgl-optimized">> \o s3 ELSE s3

\* the list selectRecordingStrategy builds, before it returns strategies[0]: three
\* pushes and an unshift
StrategyList(type, features) ==
    LET s1 == IF features.mediaRecorder /\ features.captureStream /\ type = "html-canvas"
              THEN <<"media-recorder">> ELSE <<>>
        s2 == IF features.webCodecs /\ features.videoEncoder THEN <<"web-codecs">> ELSE <<>>
        s3 == s1 \o s2 \o <<"frame-capture">>
    IN  IF type = "webgl-context" THEN <<"webgl-optimized">> \o s3 ELSE s3

\* the list in an environment e, where captureStream comes with MediaRecorder and
\* VideoEncoder with WebCodecs
RecordingStrategies(type, e) ==
    StrategyList(type, [mediaRecorder |-> e.mediaRecorder, captureStream |-> e.mediaRecorder,
                        webCodecs |-> e.webCodecs, videoEncoder |-> e.webCodecs])

selectRecordingStrategy(type, e) == Head(RecordingStrategies(type, e))

\* startRecording fails: its catch runs stopRecording and rethrows; the catch of
\* exportCanvasAsAdvancedGIF imports realGifExporter.js and calls exportCanvasAsGIF
Enhanced_Fail(f) ==
    [f EXCEPT !.isRecording = FALSE, !.pc = "std_begin", !.stdRun = 1]

\* exportGIF after resolveAndValidateCanvas; then exportCanvasAsAdvancedGIF:
\* startRecording up to the strategy it selects and executes
GIF_AfterResolve(c) ==
    LET f == calls[c] IN
    /\ f.pc = "resolving" /\ f.op = "gif"
    /\ IF f.type = "none"
       THEN /\ manager' = failExport(manager, f.id)
            /\ calls' = [calls EXCEPT ![c] = Rejected(f, "Canvas resolution failed")]
       ELSE LET strategy == selectRecordingStrategy(f.type, env)
            IN  /\ manager' = updateExportProgress(manager, f.id, 10 * Scale)
                /\ calls' = [calls EXCEPT ![c] =
                       [f EXCEPT !.tried = Append(@, "enhanced"),
                                 !.strategies = RecordingStrategies(f.type, env),
                                 !.attempted = <<strategy>>,
                                 !.isRecording = TRUE, !.i = 0, !.frames = 0,
                                 !.pc = CASE strategy = "media-recorder" -> "enh_media"
                                          [] strategy = "web-codecs" -> "enh_codecs"
                                          [] OTHER -> "enh_capture"]]
    /\ UNCHANGED <<env, utilVars, testerVars, pngVars>>

\* recordWithMediaRecorder: the recorder stops after the duration and the video blob is
\* returned as it is (convertVideoToGIF), or the constructor or the recorder fails
Enhanced_MediaRecorder(c) ==
    LET f == calls[c] IN
    /\ f.pc = "enh_media"
    /\ \E stopped \in BOOLEAN :
        IF stopped
        THEN LET r == GIF_Finish(manager, f, "video")
             IN  manager' = r[1] /\ calls' = [calls EXCEPT ![c] = r[2]]
        ELSE /\ calls' = [calls EXCEPT ![c] = Enhanced_Fail(f)]
             /\ UNCHANGED manager
    /\ UNCHANGED <<env, utilVars, testerVars, pngVars>>

\* recordWithWebCodecs: captureFramesForWebCodecs always throws
Enhanced_WebCodecs(c) ==
    LET f == calls[c] IN
    /\ f.pc = "enh_codecs"
    /\ calls' = [calls EXCEPT ![c] = Enhanced_Fail(f)]
    /\ UNCHANGED <<manager, env, utilVars, testerVars, pngVars>>

\* recordWithFrameCapture, one turn of the loop: captureFrame, and on success the
\* progress report; a failed extraction is caught and the loop goes on
Enhanced_CaptureFrame(c) ==
    LET f == calls[c]
        maxFrames == f.ticks
    IN
    /\ f.pc = "enh_capture"
    /\ f.i < maxFrames /\ f.isRecording
    /\ \E extracted \in BOOLEAN :
        IF extracted
        THEN LET progress == ((f.i + 1) * 8 * Scale) \div (maxFrames * 10)
             IN  /\ manager' = onProgress(manager, f, progress)
                 /\ calls' = [calls EXCEPT ![c] =
                        Report([f EXCEPT !.frames = @ + 1, !.i = @ + 1], progress)]
        ELSE /\ calls' = [calls EXCEPT ![c].i = @ + 1]
             /\ UNCHANGED manager
    /\ UNCHANGED <<env, utilVars, testerVars, pngVars>>

\* recordWithFrameCapture after the loop: progress 0.8, then generateGIFFromFrames.
\* No frame: it throws.  Otherwise encodeAdvancedGIF imports advancedGifEncoder.js,
\* a module the repository does not have, and encodeFallbackGIF takes over: it
\* loads the first frame into an Image.
Enhanced_Generate(c) ==
    LET f == calls[c]
        progress == (8 * Scale) \div 10
        g == Report(f, progress)
    IN
    /\ f.pc = "enh_capture"
    /\ ~(f.i < f.ticks /\ f.isRecording)
    /\ manager' = onProgress(manager, f, progress)
    /\ calls' = [calls EXCEPT ![c] =
           IF f.frames = 0 THEN Enhanced_Fail(g) ELSE [g EXCEPT !.pc = "enh_fallback"]]
    /\ UNCHANGED <<env, utilVars, testerVars, pngVars>>

\* encodeFallbackGIF: img.onload calls encoder.addFrame, which GIFEncoder does not
\* define, so the TypeError is thrown inside the event handler and the awaited promise
\* is never settled; img.onerror rejects it
Enhanced_FallbackImage(c) ==
    LET f == calls[c] IN
    /\ f.pc = "enh_fallback"
    /\ \E loaded \in BOOLEAN :
        calls' = [calls EXCEPT ![c] =
            IF loaded THEN Hung(f, "encoder.addFrame is not a function")
                      ELSE Enhanced_Fail(f)]
    /\ UNCHANGED <<manager, env, utilVars, testerVars, pngVars>>

(***************************************************************************)
(* exportCanvasAsGIF of realGifExporter.js: ModernGIFExporter when the     *)
(* browser records canvas streams, then RealGIFExporter.                   *)
(***************************************************************************)
\* RealGIFExporter.startRecording, entered with no frame yet
Real_Start(f) == [f EXCEPT !.pc = "std_capture", !.i = 0, !.frames = 0, !.isRecording = TRUE]

\* exportCanvasAsGIF rejects.  Its first invocation was made by the catch of
\* exportCanvasAsAdvancedGIF, so exportGIF catches the error and calls
\* exportCanvasAsGIF itself; the second was made by exportGIF, which goes on to
\* exportGIFWithFrameCapture.
Standard_Fail(f) ==
    IF f.stdRun = 1 THEN [f EXCEPT !.pc = "std_begin", !.stdRun = 2]
                    ELSE [f EXCEPT !.pc = "rec_begin"]

Standard_Begin(c) ==
    LET f == calls[c]
        g == [f EXCEPT !.tried = Append(@, "standard")]
    IN
    /\ f.pc = "std_begin"
    /\ calls' = [calls EXCEPT ![c] =
           IF env.mediaRecorder /\ f.type = "html-canvas"
           THEN [g EXCEPT !.pc = "std_media"]
           ELSE Real_Start(g)]
    /\ UNCHANGED <<manager, env, utilVars, testerVars, pngVars>>

\* ModernGIFExporter.startRecording: onstop resolves with the recorded video blob; a
\* failure is caught by exportCanvasAsGIF, which falls back to RealGIFExporter
Standard_MediaRecorder(c) ==
    LET f == calls[c] IN
    /\ f.pc = "std_media"
    /\ \E stopped \in BOOLEAN :
        IF stopped
        THEN LET r == GIF_Finish(manager, f, "video")
             IN  manager' = r[1] /\ calls' = [calls EXCEPT ![c] = r[2]]
        ELSE /\ calls' = [calls EXCEPT ![c] = Real_Start(f)]
             /\ UNCHANGED manager
    /\ UNCHANGED <<env, utilVars, testerVars, pngVars>>

\* RealGIFExporter.captureFrames, one frame: toDataURL, the progress report
\* frameCount / maxFrames, the timer for the next frame.  toDataURL throws inside the
\* promise executor on the first frame (the promise rejects) and inside a timer
\* callback on the later ones (nothing settles the promise).
Real_CaptureFrames(c) ==
    LET f == calls[c]
        maxFrames == f.ticks
    IN
    /\ f.pc = "std_capture"
    /\ f.isRecording /\ f.i < maxFrames
    /\ \E captured \in {b \in BOOLEAN : b => HasToDataURL(f.type)} :
        IF captured
        THEN LET progress == ((f.i + 1) * Scale) \div maxFrames
             IN  /\ manager' = onProgress(manager, f, progress)
                 /\ calls' = [calls EXCEPT ![c] =
                        Report([f EXCEPT !.frames = @ + 1, !.i = @ + 1], progress)]
        ELSE /\ calls' = [calls EXCEPT ![c] =
                    IF f.i = 0 THEN Standard_Fail(f)
                               ELSE Hung(f, "toDataURL threw in a timer callback")]
             /\ UNCHANGED manager
    /\ UNCHANGED <<env, utilVars, testerVars, pngVars>>

\* RealGIFExporter.createGIF: createAnimatedImage waits for the first frame to load
\* (no onerror), then createRealGIF loads each frame and calls encoder.addFrame in
\* img.onload: GIFEncoder defines no addFrame, the TypeError is thrown inside the
\* event handler, resolve() is never reached
Real_CreateGIF(c) ==
    LET f == calls[c] IN
    /\ f.pc = "std_capture"
    /\ ~(f.isRecording /\ f.i < f.ticks)
    /\ calls' = [calls EXCEPT ![c] = Hung(f, "encoder.addFrame is not a function")]
    /\ UNCHANGED <<manager, env, utilVars, testerVars, pngVars>>

(***************************************************************************)
(* exportGIFWithFrameCapture: a CanvasRecorder records for the duration,   *)
(* then exportAsGIF.                                                       *)
(***************************************************************************)
\* CanvasRecorder.startRecording: isRecording, the first captureFrame; a failed
\* capture runs stopRecording
Recorder_Start(c) ==
    LET f == calls[c] IN
    /\ f.pc = "rec_begin"
    /\ \E captured \in {b \in BOOLEAN : b => HasToDataURL(f.type)} :
        calls' = [calls EXCEPT ![c] =
            [f EXCEPT !.tried = Append(@, "frame-capture"), !.pc = "rec_wait", !.i = 0,
                      !.frames = IF captured THEN 1 ELSE 0,
                      !.isRecording = captured]]
    /\ UNCHANGED <<manager, env, utilVars, testerVars, pngVars>>

\* CanvasRecorder.captureFrame from its timer, while the duration has not elapsed
Recorder_CaptureFrame(c) ==
    LET f == calls[c] IN
    /\ f.pc = "rec_wait"
    /\ f.isRecording /\ f.i < f.ticks
    /\ \E captured \in BOOLEAN :
        calls' = [calls EXCEPT ![c] =
            [f EXCEPT !.i = @ + 1,
                      !.frames = IF captured THEN @ + 1 ELSE @,
                      !.isRecording = captured]]
    /\ UNCHANGED <<manager, env, utilVars, testerVars, pngVars>>

\* the duration has elapsed: stopRecording, then exportAsGIF up to the load of the
\* first frame; with no frame it rejects, and nothing catches that before the outer
\* catch of exportGIF
Recorder_Stop(c) ==
    LET f == calls[c]
        g == [f EXCEPT !.isRecording = FALSE]
    IN
    /\ f.pc = "rec_wait" /\ f.op = "gif"
    /\ IF f.frames = 0
       THEN LET r == Export_Throw(manager, g, "No frames to export")
            IN  manager' = r[1] /\ calls' = [calls EXCEPT ![c] = r[2]]
       ELSE /\ calls' = [calls EXCEPT ![c] = [g EXCEPT !.pc = "rec_image"]]
            /\ UNCHANGED manager
    /\ UNCHANGED <<env, utilVars, testerVars, pngVars>>

\* exportAsGIF, img.onload of the first frame: new GIF(...) names a constructor the
\* module does not import, so it exists only as a global of the page; then every
\* frame is loaded (no onerror) and the last one to load calls gif.render()
Recorder_ImageLoaded(c) ==
    LET f == calls[c] IN
    /\ f.pc = "rec_image"
    /\ \E loaded \in BOOLEAN :
        calls' = [calls EXCEPT ![c] =
            IF ~loaded THEN Hung(f, "a frame image never loads")
            ELSE IF ~env.gifGlobal THEN Hung(f, "GIF is not defined")
            ELSE [f EXCEPT !.pc = "rec_render"]]
    /\ UNCHANGED <<manager, env, utilVars, testerVars, pngVars>>

\* the GIF library renders: a progress event, then 'finished' with the blob
Recorder_Finished(c) ==
    LET f == calls[c]
        r == GIF_Finish(onProgress(manager, f, Scale), Report(f, Scale), "gif")
    IN
    /\ f.pc = "rec_render"
    /\ manager' = r[1]
    /\ calls' = [calls EXCEPT ![c] = r[2]]
    /\ UNCHANGED <<env, utilVars, testerVars, pngVars>>

(***************************************************************************)
(* exportMP4.                                                              *)
(***************************************************************************)
\* the tail of exportMP4: updateExportProgress(95), the PNG fallback for a missing
\* blob, updateExportProgress(100), the format read off blob.type, completeExport
MP4_Finish(m, f, blob) ==
    LET m95 == updateExportProgress(m, f.id, 95 * Scale)
    IN  IF blob = "none"
        THEN <<m95, [f EXCEPT !.pc = "png_fallback"]>>
        ELSE <<completeExport(updateExportProgress(m95, f.id, 100 * Scale), f.id),
               Resolved(f, IF blob = "mp4" THEN "mp4" ELSE IF blob = "webm" THEN "webm" ELSE "png",
                        blob)>>

\* a recording has returned a blob: updateExportProgress(85), and a WebM blob is
\* handed to convertWebMToMP4
MP4_Recorded(m, f, blob) ==
    LET m85 == updateExportProgress(m, f.id, 85 * Scale)
    IN  IF blob = "webm"
        THEN <<m85, [f EXCEPT !.pc = "converting", !.blob = "webm"]>>
        ELSE MP4_Finish(m85, f, blob)

\* exportMP4 after resolveAndValidateCanvas: isVideoExportSupported, then
\* exportCanvasAsVideo is started
MP4_AfterResolve(c) ==
    LET f == calls[c] IN
    /\ f.pc = "resolving" /\ f.op = "mp4"
    /\ IF f.type = "none"
       THEN /\ manager' = failExport(manager, f.id)
            /\ calls' = [calls EXCEPT ![c] = Rejected(f, "Canvas resolution failed")]
       ELSE LET m10 == updateExportProgress(manager, f.id, 10 * Scale)
            IN  IF ~env.mediaRecorder
                THEN LET r == Export_Throw(m10, f, "Video export not supported in this browser")
                     IN  manager' = r[1] /\ calls' = [calls EXCEPT ![c] = r[2]]
                ELSE /\ manager' = m10
                     /\ calls' = [calls EXCEPT ![c] =
                            [f EXCEPT !.tried = Append(@, "direct"), !.pc = "vid_direct"]]
    /\ UNCHANGED <<env, utilVars, testerVars, pngVars>>

\* exportCanvasAsVideo settles: the recorder stopped after the duration and resolves
\* with a blob of the mime type it chose, or isSupported / startRecording / the
\* recorder failed (an OffscreenCanvas has no captureStream)
MP4_Direct(c) ==
    LET f == calls[c] IN
    /\ f.pc = "vid_direct"
    /\ \E blob \in (IF f.type = "html-canvas" THEN {"webm", "mp4"} ELSE {}) \cup {"none"} :
        IF blob = "none"
        THEN /\ calls' = [calls EXCEPT ![c].pc = "rec_begin"]
             /\ UNCHANGED manager
        ELSE LET r == MP4_Recorded(manager, f, blob)
             IN  manager' = r[1] /\ calls' = [calls EXCEPT ![c] = r[2]]
    /\ UNCHANGED <<env, utilVars, testerVars, pngVars>>

\* exportVideoWithFrameCapture, the duration has elapsed: stopRecording, then
\* exportAsVideo up to the load of the first frame; with no frame it throws
Recorder_StopVideo(c) ==
    LET f == calls[c]
        g == [f EXCEPT !.isRecording = FALSE]
    IN
    /\ f.pc = "rec_wait" /\ f.op = "mp4"
    /\ IF f.frames = 0
       THEN LET r == Export_Throw(manager, g, "No frames to export")
            IN  manager' = r[1] /\ calls' = [calls EXCEPT ![c] = r[2]]
       ELSE /\ calls' = [calls EXCEPT ![c] = [g EXCEPT !.pc = "rec_replay"]]
            /\ UNCHANGED manager
    /\ UNCHANGED <<env, utilVars, testerVars, pngVars>>

\* exportAsVideo: the frames are replayed into a VideoRecorder.  A frame image that
\* never loads leaves the promise pending (no onerror); VideoRecorder.startRecording
\* may throw or the recorder may fail; else stopRecording resolves with the blob
Recorder_Replay(c) ==
    LET f == calls[c] IN
    /\ f.pc = "rec_replay"
    /\ \E outcome \in {"hangs", "throws", "webm", "mp4"} :
        CASE outcome = "hangs" ->
                /\ calls' = [calls EXCEPT ![c] = Hung(f, "a frame image never loads")]
                /\ UNCHANGED manager
          [] outcome = "throws" ->
                LET r == Export_Throw(manager, f, "Failed to start video recording")
                IN  manager' = r[1] /\ calls' = [calls EXCEPT ![c] = r[2]]
          [] OTHER ->
                LET r == MP4_Recorded(manager, f, outcome)
                IN  manager' = r[1] /\ calls' = [calls EXCEPT ![c] = r[2]]
    /\ UNCHANGED <<env, utilVars, testerVars, pngVars>>

\* the error of the converter reaches the outer catch of exportMP4
MP4_Converted_rethrows(c) ==
    LET f == calls[c] IN
    /\ f.pc = "converting"
    /\ \E outcome \in {"mp4", "webm", "throws"} :
        LET r == IF outcome = "throws" THEN Export_Throw(manager, f, "MP4 conversion failed")
                 ELSE MP4_Finish(manager, f, outcome)
        IN  manager' = r[1] /\ calls' = [calls EXCEPT ![c] = r[2]]
    /\ UNCHANGED <<env, utilVars, testerVars, pngVars>>

\* convertWebMToMP4 settles.  The VideoConverter returns an MP4 blob, or the WebM blob
\* it was given (no MP4 mime type is supported, or the video does not load), or its
\* promise rejects: convertUsingMediaRecorder returns the promise of the recording
\* without awaiting it, so an exception of recorder.start() is not caught there.
\* exportMP4 keeps the WebM blob when the conversion throws or gives nothing.
MP4_Converted(c) ==
    LET f == calls[c] IN
    /\ f.pc = "converting"
    /\ \E outcome \in {"mp4", "webm", "throws"} :
        LET r == MP4_Finish(manager, f, IF outcome = "mp4" THEN "mp4" ELSE f.blob)
        IN  manager' = r[1] /\ calls' = [calls EXCEPT ![c] = r[2]]
    /\ UNCHANGED <<env, utilVars, testerVars, pngVars>>

(***************************************************************************)
(* The ExportManager with up to MaxCalls calls in flight.                  *)
(***************************************************************************)
NewManager == [exportInfo |-> <<>>, activeExports |-> {}, exportHistory |-> <<>>]

\* constructor of both CanvasExportSystem classes
NewSystem == [exportInfo |-> <<>>, activeExports |-> {}, exportHistory |-> <<>>]

\* no call in progress on a CanvasExportSystem:
\*   input      what was passed as canvasInput
\*   id         the job of the call, png the job of the exportPNG it makes as a fallback
\*   error      message of the error caught by the catch of exportGIF / exportMP4
\*   thrown     the errors the call has rejected with
IdleSystemCall ==
    [op |-> "none", pc |-> "idle", input |-> "none", id |-> 0, png |-> 0,
     frameCount |-> 0, i |-> 0, out |-> "none", format |-> "none",
     fallback |-> FALSE, originalError |-> "none", error |-> "none", thrown |-> <<>>]

\* no canvas input is under resolution
NoResolution == [input |-> "none", by |-> "none", result |-> "none"]

NoRecorder == [pc |-> "unused"]

NoEncoder == [pc |-> "unused"]

NoCanvasManager == [pc |-> "unused"]

\* the services but the named one are not used
ServiceUnusedBut(name) ==
    /\ name # "canvasManager" => canvasManager = NoCanvasManager
    /\ name # "videoRecorder" => videoRecorder = NoCanvasManager
    /\ name # "codecChoice" => codecChoice = NoCanvasManager
    /\ name # "strategyChoice" => strategyChoice = NoCanvasManager
    /\ name # "frameLoop" => frameLoop = NoCanvasManager
    /\ name # "resolverCache" => resolverCache = NoCanvasManager
    /\ name # "converter" => converter = NoCanvasManager
    /\ name # "embeddedGif" => embeddedGif = NoCanvasManager

ServiceUnused == ServiceUnusedBut("none")

\* the variables of the export systems and of the canvas utilities
coreVars == <<managerVars, env, testerVars, pngVars, resolution, validation, recorder, encoder>>

UtilUnused ==
    /\ resolution = NoResolution
    /\ validation = NoResolution
    /\ recorder = NoRecorder
    /\ encoder = NoEncoder
    /\ ServiceUnused

TesterUnused == testerSystem = NewSystem /\ testerCall = IdleSystemCall

PngUnused == pngSystem = NewSystem /\ pngCall = IdleSystemCall

Environments == [mediaRecorder : BOOLEAN, webCodecs : BOOLEAN, gifGlobal : BOOLEAN]

Init ==
    /\ manager = NewManager
    /\ calls = [c \in 1..MaxCalls |-> IdleCall]
    /\ env \in Environments
    /\ TesterUnused
    /\ PngUnused
    /\ UtilUnused

Step(c) ==
    \/ Still_AfterResolve(c) \/ Still_AfterExtract(c) \/ Still_AfterBlob(c)
    \/ GIF_AfterResolve(c)
    \/ Enhanced_MediaRecorder(c) \/ Enhanced_WebCodecs(c)
    \/ Enhanced_CaptureFrame(c) \/ Enhanced_Generate(c) \/ Enhanced_FallbackImage(c)
    \/ Standard_Begin(c) \/ Standard_MediaRecorder(c)
    \/ Real_CaptureFrames(c) \/ Real_CreateGIF(c)
    \/ Recorder_Start(c) \/ Recorder_CaptureFrame(c) \/ Recorder_Stop(c)
    \/ Recorder_ImageLoaded(c) \/ Recorder_Finished(c)
    \/ MP4_AfterResolve(c) \/ MP4_Direct(c)
    \/ Recorder_StopVideo(c) \/ Recorder_Replay(c) \/ MP4_Converted(c)

Call(c) ==
    \E op \in Formats, type \in CanvasTypes \cup {"none"} :
        \E ticks \in (IF op \in {"gif", "mp4"} THEN 1..MaxTicks ELSE {0}) :
            CallExport(c, op, type, ticks)

Next == \E c \in 1..MaxCalls : Call(c) \/ Step(c)

Spec == Init /\ [][Next]_vars

(***************************************************************************)
(* The ExportManager over a long run: PNG exports made one after the       *)
(* other, each awaited before the next is made, so that exportHistory      *)
(* fills up.  At most MaxFailures of the MaxExports exports fail.          *)
(***************************************************************************)
PlainBrowser == [mediaRecorder |-> FALSE, webCodecs |-> FALSE, gifGlobal |-> FALSE]

CoreUnused ==
    /\ resolution = NoResolution
    /\ validation = NoResolution
    /\ recorder = NoRecorder
    /\ encoder = NoEncoder
    /\ env = PlainBrowser

Failures(m) == Cardinality({id \in DOMAIN m.exportInfo : m.exportInfo[id].status = "failed"})

\* the caller has taken the outcome of a settled call and makes the next one
ReturnCall(c) ==
    /\ calls[c].pc = "done"
    /\ calls' = [calls EXCEPT ![c] = IdleCall]
    /\ UNCHANGED <<manager, env, utilVars, testerVars, pngVars>>

InitHistory ==
    /\ manager = NewManager
    /\ calls = [c \in 1..MaxCalls |-> IdleCall]
    /\ env = PlainBrowser
    /\ TesterUnused
    /\ PngUnused
    /\ UtilUnused

\* a step of the run that keeps the number of failed exports within MaxFailures
WithinFailures == Failures(manager') <= MaxFailures

NextHistory ==
    \/ /\ Len(manager.exportInfo) < MaxExports
       /\ \E type \in {"html-canvas", "none"} : CallExport(1, "png", type, 0)
    \/ Still_AfterResolve(1) /\ WithinFailures
    \/ Still_AfterExtract(1) /\ WithinFailures
    \/ Still_AfterBlob(1) /\ WithinFailures
    \/ ReturnCall(1)

SpecHistory == InitHistory /\ [][NextHistory]_vars

(***************************************************************************)
(* CanvasExportSystem of exportTester.js.  Jobs are exportInfo objects     *)
(* referenced from activeExports and exportHistory, kept as ids into       *)
(* testerSystem.exportInfo.                                                *)
(***************************************************************************)
CES_generateExportId(m) == Len(m.exportInfo) + 1

CES_startExport(m, exportId, format) ==
    [m EXCEPT !.exportInfo = Append(@, [format |-> format, status |-> "started",
                                        error |-> "none"]),
              !.activeExports = @ \cup {exportId}]

CES_addToHistory(history, exportId) ==
    LET h == <<exportId>> \o history
    IN  IF Len(h) > CES_maxHistorySize THEN SubSeq(h, 1, CES_maxHistorySize) ELSE h

CES_completeExport(m, exportId) ==
    IF exportId \in m.activeExports
    THEN [m EXCEPT !.exportInfo[exportId].status = "completed",
                   !.exportHistory = CES_addToHistory(@, exportId),
                   !.activeExports = @ \ {exportId}]
    ELSE m

CES_failExport(m, exportId, error) ==
    IF exportId \in m.activeExports
    THEN [m EXCEPT !.exportInfo[exportId].status = "failed",
                   !.exportInfo[exportId].error = error,
                   !.exportHistory = CES_addToHistory(@, exportId),
                   !.activeExports = @ \ {exportId}]
    ELSE m

\* what can be passed as canvasInput: a canvas element, an OffscreenCanvas, a canvas
\* holding cross-origin pixels, and a value none of the eight strategies resolves
CanvasInputs == {"html-canvas", "offscreen-canvas", "tainted-canvas", "unresolvable"}

\* resolveCanvasWithValidation: the message of the error it throws, "none" if it returns
resolveCanvasWithValidation(input) ==
    CASE input = "unresolvable" -> "Unable to resolve canvas from input"
      [] input = "tainted-canvas" -> "Canvas is tainted and cannot be exported"
      [] OTHER -> "none"

\* what error.message reads on the event a MediaRecorder hands to onerror
NoMessage == "undefined"

\* the call returns a result object
CES_Resolved(f, format) ==
    [f EXCEPT !.pc = "done", !.out = "resolved", !.format = format]

\* without the fallback and originalError fields
CES_FallbackResult_plain(f) ==
    CES_Resolved(f, "png")

\* { ...pngResult, format: 'png', fallback: true, originalError: error.message }
CES_FallbackResult(f) ==
    [CES_Resolved(f, "png") EXCEPT !.fallback = TRUE, !.originalError = f.error]

\* the call throws
CES_Rejected(f, message) ==
    [f EXCEPT !.pc = "done", !.out = "rejected", !.thrown = Append(@, message)]

\* entry of exportPNG / exportJPG / exportGIF / exportMP4, up to the first await
CES_CallExport(op, input, frameCount) ==
    /\ testerCall.pc = "idle"
    /\ LET id == CES_generateExportId(testerSystem)
       IN  /\ testerSystem' = CES_startExport(testerSystem, id, op)
           /\ testerCall' = [IdleSystemCall EXCEPT !.op = op, !.pc = "resolving", !.id = id,
                                 !.input = input, !.frameCount = frameCount,
                                 !.out = "pending"]
    /\ UNCHANGED <<managerVars, env, utilVars, pngVars>>

\* catch of exportPNG / exportJPG: failExport, then throw
CES_Still_Catch(m, f, error) ==
    <<CES_failExport(m, f.id, error),
      CES_Rejected(f, IF f.op = "png" THEN "PNG export failed" ELSE "JPG export failed")>>

\* catch of exportGIF / exportMP4: failExport, then the call of exportPNG with the same
\* canvasInput, which runs up to its first await
CES_Animated_Catch(m, f, error) ==
    LET failed == CES_failExport(m, f.id, error)
        png == CES_generateExportId(failed)
    IN  <<CES_startExport(failed, png, "png"),
          [f EXCEPT !.pc = "png_resolving", !.error = error, !.png = png]>>

\* exportPNG / exportJPG after resolveCanvasWithValidation
CES_Still_AfterResolve ==
    /\ testerCall.pc = "resolving"
    /\ testerCall.op \in {"png", "jpg"}
    /\ LET error == resolveCanvasWithValidation(testerCall.input)
           r == IF error # "none"
                THEN CES_Still_Catch(testerSystem, testerCall, error)
                ELSE <<testerSystem, [testerCall EXCEPT !.pc = "extracting"]>>
       IN  testerSystem' = r[1] /\ testerCall' = r[2]
    /\ UNCHANGED <<managerVars, env, utilVars, pngVars>>

\* exportPNG / exportJPG after extractImageDataWithFallbacks
CES_Still_AfterExtract ==
    /\ testerCall.pc = "extracting"
    /\ \E ok \in BOOLEAN :
          LET r == IF ok
                   THEN <<testerSystem, [testerCall EXCEPT !.pc = "to_blob"]>>
                   ELSE CES_Still_Catch(testerSystem, testerCall,
                                        "All image extraction strategies failed")
          IN  testerSystem' = r[1] /\ testerCall' = r[2]
    /\ UNCHANGED <<managerVars, env, utilVars, pngVars>>

\* exportPNG / exportJPG after dataURLToBlob (fetch of the data URL)
CES_Still_AfterBlob ==
    /\ testerCall.pc = "to_blob"
    /\ \E ok \in BOOLEAN :
          LET r == IF ok
                   THEN <<CES_completeExport(testerSystem, testerCall.id),
                          CES_Resolved(testerCall, testerCall.op)>>
                   ELSE CES_Still_Catch(testerSystem, testerCall, "Failed to fetch")
          IN  testerSystem' = r[1] /\ testerCall' = r[2]
    /\ UNCHANGED <<managerVars, env, utilVars, pngVars>>

\* exportGIF after resolveCanvasWithValidation: the GIFEncoder is made and the first
\* addFrameFromCanvas is called
CES_GIF_AfterResolve ==
    /\ testerCall.pc = "resolving"
    /\ testerCall.op = "gif"
    /\ LET error == resolveCanvasWithValidation(testerCall.input)
           r == IF error # "none"
                THEN CES_Animated_Catch(testerSystem, testerCall, error)
                ELSE <<testerSystem, [testerCall EXCEPT !.pc = "adding_frame"]>>
       IN  testerSystem' = r[1] /\ testerCall' = r[2]
    /\ UNCHANGED <<managerVars, env, utilVars, pngVars>>

\* exportGIF after one addFrameFromCanvas: the frame is added, or every extraction
\* strategy of the encoder has failed; after the last frame comes encoder.exportAsBlob
CES_GIF_AfterFrame ==
    /\ testerCall.pc = "adding_frame"
    /\ \E ok \in BOOLEAN :
          LET r == IF ~ok
                   THEN CES_Animated_Catch(testerSystem, testerCall,
                                           "All image data extraction strategies failed")
                   ELSE IF testerCall.i + 1 < testerCall.frameCount
                   THEN <<testerSystem, [testerCall EXCEPT !.i = @ + 1, !.pc = "frame_wait"]>>
                   ELSE <<testerSystem, [testerCall EXCEPT !.i = @ + 1, !.pc = "encoding"]>>
          IN  testerSystem' = r[1] /\ testerCall' = r[2]
    /\ UNCHANGED <<managerVars, env, utilVars, pngVars>>

\* the setTimeout between two frames
CES_GIF_NextFrame ==
    /\ testerCall.pc = "frame_wait"
    /\ testerCall' = [testerCall EXCEPT !.pc = "adding_frame"]
    /\ UNCHANGED <<testerSystem, managerVars, env, utilVars, pngVars>>

\* exportGIF after encoder.exportAsBlob: generateGIF returns the bytes or throws
CES_GIF_AfterEncode ==
    /\ testerCall.pc = "encoding"
    /\ \E ok \in BOOLEAN :
          LET r == IF ok
                   THEN <<CES_completeExport(testerSystem, testerCall.id),
                          CES_Resolved(testerCall, "gif")>>
                   ELSE CES_Animated_Catch(testerSystem, testerCall, "GIF generation failed")
          IN  testerSystem' = r[1] /\ testerCall' = r[2]
    /\ UNCHANGED <<managerVars, env, utilVars, pngVars>>

\* isVideoRecordingSupported
isVideoRecordingSupported(e) == e.mediaRecorder

\* exportMP4 after resolveCanvasWithValidation, up to the promise of recordCanvasVideo
CES_MP4_AfterResolve ==
    /\ testerCall.pc = "resolving"
    /\ testerCall.op = "mp4"
    /\ LET error == resolveCanvasWithValidation(testerCall.input)
       IN  \E constructed \in BOOLEAN :
              LET r == IF error # "none"
                       THEN CES_Animated_Catch(testerSystem, testerCall, error)
                       ELSE IF ~isVideoRecordingSupported(env)
                       THEN CES_Animated_Catch(testerSystem, testerCall,
                                "Video recording not supported in this browser")
                       ELSE IF testerCall.input = "offscreen-canvas"
                       THEN CES_Animated_Catch(testerSystem, testerCall,
                                "canvas.captureStream is not a function")
                       ELSE IF ~constructed
                       THEN CES_Animated_Catch(testerSystem, testerCall,
                                "mimeType is not supported")
                       ELSE <<testerSystem, [testerCall EXCEPT !.pc = "recording"]>>
              IN  testerSystem' = r[1] /\ testerCall' = r[2]
    /\ UNCHANGED <<managerVars, env, utilVars, pngVars>>

\* recordCanvasVideo settles: onstop resolves with a video/webm blob, onerror rejects
\* with the event
CES_MP4_Recorded ==
    /\ testerCall.pc = "recording"
    /\ \E stopped \in BOOLEAN :
          LET r == IF stopped
                   THEN <<CES_completeExport(testerSystem, testerCall.id),
                          CES_Resolved(testerCall, "webm")>>
                   ELSE CES_Animated_Catch(testerSystem, testerCall, NoMessage)
          IN  testerSystem' = r[1] /\ testerCall' = r[2]
    /\ UNCHANGED <<managerVars, env, utilVars, pngVars>>

\* catch of the exportPNG made as a fallback: failExport of its job and throw; the catch
\* around it in exportGIF / exportMP4 throws the one error of the call
CES_Fallback_Catch(m, f, error) ==
    <<CES_failExport(m, f.png, error),
      CES_Rejected(f, IF f.op = "gif"
                      THEN "GIF export failed and PNG fallback also failed"
                      ELSE "MP4 export failed and PNG fallback also failed")>>

\* the fallback exportPNG after resolveCanvasWithValidation
CES_Fallback_AfterResolve ==
    /\ testerCall.pc = "png_resolving"
    /\ LET error == resolveCanvasWithValidation(testerCall.input)
           r == IF error # "none"
                THEN CES_Fallback_Catch(testerSystem, testerCall, error)
                ELSE <<testerSystem, [testerCall EXCEPT !.pc = "png_extracting"]>>
       IN  testerSystem' = r[1] /\ testerCall' = r[2]
    /\ UNCHANGED <<managerVars, env, utilVars, pngVars>>

\* the fallback exportPNG after extractImageDataWithFallbacks
CES_Fallback_AfterExtract ==
    /\ testerCall.pc = "png_extracting"
    /\ \E ok \in BOOLEAN :
          LET r == IF ok
                   THEN <<testerSystem, [testerCall EXCEPT !.pc = "png_to_blob"]>>
                   ELSE CES_Fallback_Catch(testerSystem, testerCall,
                                           "All image extraction strategies failed")
          IN  testerSystem' = r[1] /\ testerCall' = r[2]
    /\ UNCHANGED <<managerVars, env, utilVars, pngVars>>

\* the fallback exportPNG after dataURLToBlob: completeExport of its job, and
\* exportGIF / exportMP4 returns the flagged result
CES_Fallback_AfterBlob ==
    /\ testerCall.pc = "png_to_blob"
    /\ \E ok \in BOOLEAN :
          LET r == IF ok
                   THEN <<CES_completeExport(testerSystem, testerCall.png),
                          CES_FallbackResult(testerCall)>>
                   ELSE CES_Fallback_Catch(testerSystem, testerCall, "Failed to fetch")
          IN  testerSystem' = r[1] /\ testerCall' = r[2]
    /\ UNCHANGED <<managerVars, env, utilVars, pngVars>>

\* the caller has taken the outcome and makes the next call
CES_ReturnCall ==
    /\ testerCall.pc = "done"
    /\ testerCall' = IdleSystemCall
    /\ UNCHANGED <<testerSystem, managerVars, env, utilVars, pngVars>>

ManagerUnused == manager = NewManager /\ calls = [c \in 1..MaxCalls |-> IdleCall]

\* the CanvasExportSystem reads window.MediaRecorder only
InitTester ==
    /\ testerSystem = NewSystem
    /\ testerCall = IdleSystemCall
    /\ env \in {e \in Environments : ~e.webCodecs /\ ~e.gifGlobal}
    /\ ManagerUnused
    /\ PngUnused
    /\ UtilUnused

NextTester ==
    \/ /\ Len(testerSystem.exportInfo) < MaxTesterExports
       /\ \E op \in Formats, input \in CanvasInputs :
             \E frameCount \in (IF op = "gif" THEN 1..MaxFrameCount ELSE {0}) :
                 CES_CallExport(op, input, frameCount)
    \/ CES_Still_AfterResolve \/ CES_Still_AfterExtract \/ CES_Still_AfterBlob
    \/ CES_GIF_AfterResolve \/ CES_GIF_AfterFrame \/ CES_GIF_NextFrame
    \/ CES_GIF_AfterEncode
    \/ CES_MP4_AfterResolve \/ CES_MP4_Recorded
    \/ CES_Fallback_AfterResolve \/ CES_Fallback_AfterExtract \/ CES_Fallback_AfterBlob
    \/ CES_ReturnCall

SpecTester == InitTester /\ [][NextTester]_vars

(***************************************************************************)
(* CanvasExportSystem of canvasExportSystem.js (PNG only): exports made    *)
(* one after the other, each awaited before the next is made.  At most     *)
(* MaxPngFailures of the MaxPngExports exports fail.                       *)
(***************************************************************************)
PNG_generateExportId(m) == Len(m.exportInfo) + 1

PNG_startExport(m, exportId, format) ==
    [m EXCEPT !.exportInfo = Append(@, [format |-> format, status |-> "started"]),
              !.activeExports = @ \cup {exportId}]

\* push, then shift when the history has grown beyond maxHistorySize
PNG_completeExport(m, exportId) ==
    IF exportId \in m.activeExports
    THEN LET h == Append(m.exportHistory, exportId)
         IN  [m EXCEPT !.exportInfo[exportId].status = "completed",
                       !.exportHistory = IF Len(h) > PNG_maxHistorySize THEN Tail(h) ELSE h,
                       !.activeExports = @ \ {exportId}]
    ELSE m

\* push only
PNG_failExport(m, exportId) ==
    IF exportId \in m.activeExports
    THEN [m EXCEPT !.exportInfo[exportId].status = "failed",
                   !.exportHistory = Append(@, exportId),
                   !.activeExports = @ \ {exportId}]
    ELSE m

\* resolveCanvasWithValidation of canvasExportSystem.js: does it return a canvas
PNG_resolveCanvasWithValidation(input) ==
    input \in {"html-canvas", "offscreen-canvas"}

\* entry of exportPNG, up to the first await
PNG_CallExport(input) ==
    /\ pngCall.pc = "idle"
    /\ LET id == PNG_generateExportId(pngSystem)
       IN  /\ pngSystem' = PNG_startExport(pngSystem, id, "png")
           /\ pngCall' = [IdleSystemCall EXCEPT !.op = "png", !.pc = "resolving", !.id = id,
                              !.input = input, !.out = "pending"]
    /\ UNCHANGED <<managerVars, env, utilVars, testerVars>>

\* catch of exportPNG: failExport, then throw
PNG_Catch(m, f) ==
    <<PNG_failExport(m, f.id), CES_Rejected(f, "PNG export failed")>>

PNG_AfterResolve ==
    /\ pngCall.pc = "resolving"
    /\ LET r == IF PNG_resolveCanvasWithValidation(pngCall.input)
                THEN <<pngSystem, [pngCall EXCEPT !.pc = "extracting"]>>
                ELSE PNG_Catch(pngSystem, pngCall)
       IN  pngSystem' = r[1] /\ pngCall' = r[2]
    /\ UNCHANGED <<managerVars, env, utilVars, testerVars>>

PNG_AfterExtract ==
    /\ pngCall.pc = "extracting"
    /\ \E ok \in BOOLEAN :
          LET r == IF ok
                   THEN <<pngSystem, [pngCall EXCEPT !.pc = "to_blob"]>>
                   ELSE PNG_Catch(pngSystem, pngCall)
          IN  pngSystem' = r[1] /\ pngCall' = r[2]
    /\ UNCHANGED <<managerVars, env, utilVars, testerVars>>

PNG_AfterBlob ==
    /\ pngCall.pc = "to_blob"
    /\ \E ok \in BOOLEAN :
          LET r == IF ok
                   THEN <<PNG_completeExport(pngSystem, pngCall.id),
                          CES_Resolved(pngCall, "png")>>
                   ELSE PNG_Catch(pngSystem, pngCall)
          IN  pngSystem' = r[1] /\ pngCall' = r[2]
    /\ UNCHANGED <<managerVars, env, utilVars, testerVars>>

PNG_ReturnCall ==
    /\ pngCall.pc = "done"
    /\ pngCall' = IdleSystemCall
    /\ UNCHANGED <<pngSystem, managerVars, env, utilVars, testerVars>>

InitPng ==
    /\ pngSystem = NewSystem
    /\ pngCall = IdleSystemCall
    /\ env = PlainBrowser
    /\ ManagerUnused
    /\ TesterUnused
    /\ UtilUnused

\* a step of the run that keeps the number of failed exports within MaxPngFailures
WithinPngFailures == Failures(pngSystem') <= MaxPngFailures

NextPng ==
    \/ /\ Len(pngSystem.exportInfo) < MaxPngExports
       /\ \E input \in {"html-canvas", "unresolvable"} : PNG_CallExport(input)
    \/ PNG_AfterResolve /\ WithinPngFailures
    \/ PNG_AfterExtract /\ WithinPngFailures
    \/ PNG_AfterBlob /\ WithinPngFailures
    \/ PNG_ReturnCall

SpecPng == InitPng /\ [][NextPng]_vars

(***************************************************************************)
(* Canvas inputs and their resolution: CanvasReferenceResolver             *)
(* (canvasReferenceResolver.js) and CanvasDebugger.analyzeResolution.      *)
(* An input is a chain of depth wrapper objects around an innermost value. *)
(* Node 0 is the input itself, node i the value held by wrapper i - 1; the *)
(* wrappers hold it in the property outer and inner in turn.  With the     *)
(* innermost value "cycle" the last wrapper holds node 0 again.            *)
(***************************************************************************)
WrapperKinds == {"current", "canvas", "canvasElement", "domElement"}

\* the innermost values: the two canvas classes, null, undefined, a plain object, a
\* string, and "cycle" for a chain closed on itself
Innermost ==
    {"html-canvas", "offscreen-canvas", "null", "undefined", "object", "string", "cycle"}

Canvases == {"html-canvas", "offscreen-canvas"}

\* !value
Falsy(value) == value \in {"null", "undefined"}

CanvasReferences ==
    {r \in [depth : 0..MaxDepth, outer : WrapperKinds, inner : WrapperKinds,
            end : Innermost] :
        /\ r.end = "cycle" => r.depth >= 1
        /\ r.depth = 0 => r.outer = "current"
        /\ r.depth <= 1 => r.inner = "current"}

\* the property in which node i holds the next node
KindAt(r, i) == IF i % 2 = 0 THEN r.outer ELSE r.inner

\* the node held by wrapper node i
NextNode(r, i) == IF i + 1 = r.depth /\ r.end = "cycle" THEN 0 ELSE i + 1

\* what node i is
NodeValue(r, i) == IF i = r.depth THEN r.end ELSE "wrapper"

Failure(type, error, hops) ==
    [success |-> FALSE, canvas |-> "null", type |-> type, error |-> error, hops |-> hops]

Success(canvas, type, hops) ==
    [success |-> TRUE, canvas |-> canvas, type |-> type, error |-> "null", hops |-> hops]

\* resolveCanvasReference on node i, reached through hops unwrap steps: performResolution
\* and resolveReactRef call it again on the value they unwrap.  A call the stack has no
\* room for throws a RangeError, which the catch of performResolution turns into a result.
\* A domElement wrapper is a WebGLRenderer.  A string is array-like with itself as first
\* element, so it is unwrapped until the stack is full.
RECURSIVE resolveCanvasReference(_, _, _)
resolveCanvasReference(r, i, hops) ==
    LET value == NodeValue(r, i)
        next == NextNode(r, i)
        held == NodeValue(r, next)
    IN  CASE Falsy(value) ->
                Failure("none", "Canvas input is null or undefined", hops)
          [] hops >= StackDepth \/ value = "string" ->
                Failure("error", "Resolution error: Maximum call stack size exceeded", hops)
          [] value = "html-canvas" -> Success(value, "html-canvas", hops)
          [] value = "offscreen-canvas" -> Success(value, "offscreen-canvas", hops)
          [] value = "object" ->
                Failure("unknown", "Unsupported canvas reference type: object", hops)
          [] KindAt(r, i) = "current" /\ Falsy(held) ->
                Failure("react-ref-null", "React ref current is null", hops)
          [] KindAt(r, i) = "current" /\ held = "html-canvas" ->
                Success(held, "react-ref-canvas", hops + 1)
          [] KindAt(r, i) = "domElement" /\ held = "html-canvas" ->
                Success(held, "three-renderer", hops + 1)
          [] KindAt(r, i) = "domElement" \/ Falsy(held) ->
                Failure("unknown", "Unsupported canvas reference type: object", hops)
          [] OTHER -> resolveCanvasReference(r, next, hops + 1)

\* the loop of analyzeResolution with current = node i
RECURSIVE analyzeLoop(_, _, _, _)
analyzeLoop(r, i, step, steps) ==
    LET value == NodeValue(r, i)
        isCanvas == value \in Canvases
        pushed == Append(steps, [step |-> step + 1, isCanvas |-> isCanvas])
        unfound(n, e) == [success |-> FALSE, finalCanvas |-> "null", steps |-> e,
                          error |-> IF n >= maxSteps
                                    THEN "Resolution chain too deep (possible circular reference)"
                                    ELSE "No valid canvas found in resolution chain"]
    IN  IF Falsy(value) \/ step >= maxSteps THEN unfound(step, steps)
        ELSE IF isCanvas
        THEN [success |-> TRUE, finalCanvas |-> value, steps |-> pushed, error |-> "null"]
        ELSE IF value # "wrapper" THEN unfound(step + 1, pushed)
        ELSE IF NextNode(r, i) = i THEN unfound(step, pushed)
        ELSE analyzeLoop(r, NextNode(r, i), step + 1, pushed)

analyzeResolution(r) == analyzeLoop(r, 0, 0, <<>>)

\* canvasReferenceResolver.resolveCanvasReference(input)
Resolve ==
    /\ resolution.by = "none"
    /\ resolution' = [resolution EXCEPT !.by = "resolver",
                         !.result = resolveCanvasReference(resolution.input, 0, 0)]
    /\ UNCHANGED <<managerVars, env, testerVars, pngVars, serviceVars, validation, recorder, encoder>>

\* canvasDebugger.analyzeResolution(input)
Analyze ==
    /\ resolution.by = "none"
    /\ resolution' = [resolution EXCEPT !.by = "debugger",
                         !.result = analyzeResolution(resolution.input)]
    /\ UNCHANGED <<managerVars, env, testerVars, pngVars, serviceVars, validation, recorder, encoder>>

InitResolution ==
    /\ resolution \in {[NoResolution EXCEPT !.input = r] : r \in CanvasReferences}
    /\ validation = NoResolution
    /\ recorder = NoRecorder
    /\ encoder = NoEncoder
    /\ env = PlainBrowser
    /\ ServiceUnused
    /\ ManagerUnused
    /\ TesterUnused
    /\ PngUnused

NextResolution == Resolve \/ Analyze

SpecResolution == InitResolution /\ [][NextResolution]_vars

(***************************************************************************)
(* Validation of a canvas input.  The canvas at the end of a reference has *)
(* a surface: its width and height, whether it is tainted by cross-origin  *)
(* content (toDataURL then throws a SecurityError), and whether it still   *)
(* has its export method (toDataURL on an HTMLCanvasElement, convertToBlob *)
(* on an OffscreenCanvas).                                                 *)
(***************************************************************************)

MaxSide == 1
MaxWrapped == 1

Surfaces == [width : 0..MaxSide, height : 0..MaxSide, tainted : BOOLEAN, exportable : BOOLEAN]

\* what a validator hands back: a result object, or an exception (threw)
Verdict(isValid, canvas, error) ==
    [threw |-> FALSE, isValid |-> isValid, canvas |-> canvas, error |-> error]

Thrown(error) ==
    [threw |-> TRUE, isValid |-> FALSE, canvas |-> "null", error |-> error]

\* the probe canvas.toDataURL('image/png', 0.1) run outside any try block
validateResolvedCanvas_unguarded(value, surface) ==
    CASE Falsy(value) -> Verdict(FALSE, "null", "Canvas is null")
      [] value \notin Canvases -> Verdict(FALSE, "null", "Not a valid canvas element")
      [] surface.width <= 0 \/ surface.height <= 0 ->
            Verdict(FALSE, "null", "Canvas has invalid dimensions")
      [] ~surface.exportable ->
            Verdict(FALSE, "null", "Canvas does not support export methods")
      [] value = "html-canvas" /\ surface.tainted -> Thrown("SecurityError")
      [] OTHER -> Verdict(TRUE, value, "null")

\* the test of width and height left out
validateResolvedCanvas_anySize(value, surface) ==
    CASE Falsy(value) -> Verdict(FALSE, "null", "Canvas is null")
      [] value \notin Canvases -> Verdict(FALSE, "null", "Not a valid canvas element")
      [] ~surface.exportable ->
            Verdict(FALSE, "null", "Canvas does not support export methods")
      [] value = "html-canvas" /\ surface.tainted ->
            Verdict(FALSE, "null", "Canvas export test failed")
      [] OTHER -> Verdict(TRUE, value, "null")

\* CanvasReferenceResolver.validateResolvedCanvas(canvas)
validateResolvedCanvas(value, surface) ==
    CASE Falsy(value) -> Verdict(FALSE, "null", "Canvas is null")
      [] value \notin Canvases -> Verdict(FALSE, "null", "Not a valid canvas element")
      [] surface.width <= 0 \/ surface.height <= 0 ->
            Verdict(FALSE, "null", "Canvas has invalid dimensions")
      [] ~surface.exportable ->
            Verdict(FALSE, "null", "Canvas does not support export methods")
      [] value = "html-canvas" /\ surface.tainted ->
            Verdict(FALSE, "null", "Canvas export test failed")
      [] OTHER -> Verdict(TRUE, value, "null")

\* CanvasReferenceResolver.getValidatedCanvas(canvasInput); success is isValid
getValidatedCanvas(r, surface) ==
    LET resolved == resolveCanvasReference(r, 0, 0)
        checked == validateResolvedCanvas(resolved.canvas, surface)
    IN  IF ~resolved.success THEN Verdict(FALSE, "null", resolved.error)
        ELSE IF checked.threw THEN checked
        ELSE IF ~checked.isValid THEN Verdict(FALSE, "null", checked.error)
        ELSE Verdict(TRUE, resolved.canvas, "null")

\* CanvasValidator.validateCanvas(canvasInput): everything runs inside one try block
validateCanvas(r, surface) ==
    LET validated == getValidatedCanvas(r, surface)
    IN  IF validated.threw THEN Verdict(FALSE, "null", "Canvas validation failed")
        ELSE validated

\* CanvasExportSystem.validateCanvas(canvas) of canvasExportSystem.js, which throws
PNG_validateCanvas(value, surface) ==
    CASE Falsy(value) -> Thrown("Canvas is null or undefined")
      [] value \notin Canvases -> Thrown("Invalid canvas type")
      [] surface.width <= 0 \/ surface.height <= 0 -> Thrown("Invalid canvas dimensions")
      [] ~surface.exportable -> Thrown("Canvas does not support export methods")
      [] value = "html-canvas" /\ surface.tainted ->
            Thrown("Canvas is tainted and cannot be exported")
      [] OTHER -> Verdict(TRUE, value, "null")

\* CanvasExportSystem.resolveCanvasWithValidation(canvasInput) of canvasExportSystem.js,
\* from node i of the reference; every wrapper property is followed
RECURSIVE PNG_resolveChain(_, _, _, _)
PNG_resolveChain(r, surface, i, hops) ==
    LET value == NodeValue(r, i)
    IN  CASE value \in Canvases -> PNG_validateCanvas(value, surface)
          [] value # "wrapper" -> Thrown("Unable to resolve canvas from input")
          [] hops >= StackDepth -> Thrown("Maximum call stack size exceeded")
          [] OTHER -> PNG_resolveChain(r, surface, NextNode(r, i), hops + 1)

Validated(who, result) ==
    /\ validation.by = "none"
    /\ validation' = [validation EXCEPT !.by = who, !.result = result]
    /\ UNCHANGED <<managerVars, env, testerVars, pngVars, serviceVars, resolution, recorder, encoder>>

\* canvasReferenceResolver.validateResolvedCanvas(input)
ValidateResolved ==
    Validated("validateResolvedCanvas",
              validateResolvedCanvas(NodeValue(validation.input.ref, 0), validation.input.surface))

\* canvasReferenceResolver.getValidatedCanvas(input)
GetValidated ==
    Validated("getValidatedCanvas",
              getValidatedCanvas(validation.input.ref, validation.input.surface))

\* canvasValidator.validateCanvas(input)
ValidateCanvas ==
    Validated("validateCanvas", validateCanvas(validation.input.ref, validation.input.surface))

\* canvasExportSystem.resolveCanvasWithValidation(input)
ResolveWithValidation ==
    Validated("resolveCanvasWithValidation",
              PNG_resolveChain(validation.input.ref, validation.input.surface, 0, 0))

InitValidation ==
    /\ validation \in {[NoResolution EXCEPT !.input = [ref |-> r, surface |-> s]] :
                          r \in {c \in CanvasReferences : c.depth <= MaxWrapped}, s \in Surfaces}
    /\ resolution = NoResolution
    /\ recorder = NoRecorder
    /\ encoder = NoEncoder
    /\ env = PlainBrowser
    /\ ServiceUnused
    /\ ManagerUnused
    /\ TesterUnused
    /\ PngUnused

NextValidation == ValidateResolved \/ GetValidated \/ ValidateCanvas \/ ResolveWithValidation

SpecValidation == InitValidation /\ [][NextValidation]_vars

(***************************************************************************)
(* Division of JavaScript numbers.  1000 / fps and duration / frameInterval*)
(* are IEEE 754 double divisions: the exact quotient rounded to 53         *)
(* significant bits, ties to even.  A mantissa does not fit a machine      *)
(* integer here, so it is kept as four limbs of 15 bits, lowest first.     *)
(***************************************************************************)

Precision == 52 + 1
Base == 2 ^ 15

Limbs(n) == <<n % Base, (n \div Base) % Base, 0, 0>>

\* 2a + bit
TwicePlus(a, bit) ==
    LET t1 == 2 * a[1] + bit
        t2 == 2 * a[2] + (t1 \div Base)
        t3 == 2 * a[3] + (t2 \div Base)
        t4 == 2 * a[4] + (t3 \div Base)
    IN  <<t1 % Base, t2 % Base, t3 % Base, t4 % Base>>

\* a >= b
AtLeast(a, b) ==
    CASE a[4] # b[4] -> a[4] > b[4]
      [] a[3] # b[3] -> a[3] > b[3]
      [] a[2] # b[2] -> a[2] > b[2]
      [] OTHER -> a[1] >= b[1]

\* a - b, for a >= b
Minus(a, b) ==
    LET d1 == a[1] - b[1]
        d2 == a[2] - b[2] - (IF d1 < 0 THEN 1 ELSE 0)
        d3 == a[3] - b[3] - (IF d2 < 0 THEN 1 ELSE 0)
        d4 == a[4] - b[4] - (IF d3 < 0 THEN 1 ELSE 0)
    IN  <<d1 % Base, d2 % Base, d3 % Base, d4 % Base>>

\* a + 1
PlusOne(a) == Minus(TwicePlus(a, 1), a)

\* the binary digits of n, highest first
RECURSIVE Bits(_)
Bits(n) == IF n = 0 THEN <<>> ELSE Append(Bits(n \div 2), n % 2)

\* one digit of the long division of a by b: s.r is the remainder, s.m the digits
\* so far, s.sig how many of them are significant, s.k how many follow the point
MantissaStep(s, b) ==
    LET bit == IF 2 * s.r >= b THEN 1 ELSE 0
    IN  [r |-> 2 * s.r - bit * b, m |-> TwicePlus(s.m, bit),
         sig |-> IF s.sig > 0 \/ bit = 1 THEN s.sig + 1 ELSE 0, k |-> s.k + 1]

\* n digits, by halves: the first half is computed, then the second
RECURSIVE MantissaSteps(_, _, _)
MantissaSteps(s, b, n) ==
    IF n = 0 THEN s
    ELSE IF n = 1 THEN MantissaStep(s, b)
    ELSE LET half == MantissaSteps(s, b, n \div 2)
         IN  IF half.k > s.k THEN MantissaSteps(half, b, n - n \div 2) ELSE half

\* the division carried to Precision significant bits, then rounded to nearest, ties
\* to even; the double is m / 2^k
RECURSIVE MantissaOf(_, _)
MantissaOf(s, b) ==
    IF s.sig >= Precision
    THEN LET up == 2 * s.r > b \/ (2 * s.r = b /\ s.m[1] % 2 = 1)
         IN  [m |-> IF up THEN PlusOne(s.m) ELSE s.m, k |-> s.k]
    ELSE MantissaOf(MantissaSteps(s, b, Precision - s.sig), b)

\* a / b for positive integers a and b
Divide(a, b) ==
    MantissaOf([r |-> a % b, m |-> Limbs(a \div b), sig |-> Len(Bits(a \div b)), k |-> 0], b)

\* one digit of the long division of d * 2^k by the mantissa m of x = m / 2^k: s.in
\* are the digits of d still to bring down and s.zeros the zeros after them; s.q is the
\* integer part; past the binary point s.ones tells whether every digit so far was 1,
\* and s.last is the latest digit
QuotientStep(s, m) ==
    LET whole == s.in # <<>> \/ s.zeros > 0
        r2 == TwicePlus(s.r, IF s.in # <<>> THEN Head(s.in) ELSE 0)
        bit == IF AtLeast(r2, m) THEN 1 ELSE 0
    IN  [in |-> IF s.in # <<>> THEN Tail(s.in) ELSE s.in,
         zeros |-> IF s.in # <<>> \/ s.zeros = 0 THEN s.zeros ELSE s.zeros - 1,
         r |-> IF bit = 1 THEN Minus(r2, m) ELSE r2,
         q |-> IF whole THEN 2 * s.q + bit ELSE s.q,
         sig |-> IF s.sig > 0 \/ bit = 1 THEN s.sig + 1 ELSE 0,
         ones |-> IF whole THEN TRUE ELSE s.ones /\ bit = 1,
         last |-> bit]

\* n digits, by halves: the first half is computed, then the second
RECURSIVE QuotientSteps(_, _, _)
QuotientSteps(s, m, n) ==
    IF n = 0 THEN s
    ELSE IF n = 1 THEN QuotientStep(s, m)
    ELSE LET half == QuotientSteps(s, m, n \div 2)
         IN  IF half.last >= 0 THEN QuotientSteps(half, m, n - n \div 2) ELSE half

\* the digits past the binary point, up to Precision significant bits
RECURSIVE Fraction(_, _)
Fraction(s, m) ==
    IF s.sig >= Precision THEN s ELSE Fraction(QuotientSteps(s, m, Precision - s.sig), m)

\* Math.floor(d / x) for an integer d > 0 and a double x = m / 2^k: the quotient is
\* rounded to Precision bits first, which carries into the integer part when every
\* digit past the point is 1 and the rest rounds up
FloorOfQuotient(d, x) ==
    LET start == [in |-> Bits(d), zeros |-> x.k, r |-> Limbs(0), q |-> 0, sig |-> 0,
                  ones |-> TRUE, last |-> 0]
        s == Fraction(QuotientSteps(start, x.m, Len(Bits(d)) + x.k), x.m)
        r2 == TwicePlus(s.r, 0)
        up == (r2 # x.m /\ AtLeast(r2, x.m)) \/ (r2 = x.m /\ s.last = 1)
    IN  IF s.ones /\ up THEN s.q + 1 ELSE s.q

\* Math.floor(duration / (1000 / fps))
FloorDividedByInterval(duration, fps) ==
    IF duration = 0 THEN 0
    ELSE LET frameInterval == Divide(1000, fps)
         IN  FloorOfQuotient(duration, frameInterval)

(***************************************************************************)
(* EnhancedGIFExporter.recordWithFrameCapture.  The exporter is taken as   *)
(* startRecording leaves it when it picks frame capture: reset, with       *)
(* isRecording true.  An action is the code between two awaits.  A frame   *)
(* is written as the tick i at which it was extracted.  attempts, failed,  *)
(* succeeded, stoppedAt, stoppedFrames and handed are records for the      *)
(* claims: the extractions begun and failed, the ticks extracted, the      *)
(* attempts and frames at the time of stopRecording, and the frames passed *)
(* to encodeAdvancedGIF.                                                   *)
(***************************************************************************)

MaxCaptureFailures == 1

FrameRates == {1, 15, 30}
Durations == {1000, 2000}
FrameCaps == {2, 120}

RecordingOptions == [fps : FrameRates, duration : Durations, maxFrames : FrameCaps]

NewRecorder(options) ==
    [pc |-> "idle", options |-> options, maxFrames |-> 0, i |-> 0,
     isRecording |-> TRUE, aborted |-> FALSE, frames |-> <<>>, frameCount |-> 0,
     progress |-> 0, attempts |-> 0, failed |-> 0, succeeded |-> {},
     stoppedAt |-> -1, stoppedFrames |-> <<>>, handed |-> <<>>,
     out |-> "pending", error |-> "none"]

\* the head of the for loop: the next captureFrame up to its await, or the code after
\* the loop, progressCallback(0.8) and generateGIFFromFrames up to the import of
\* advancedGifEncoder.js in encodeAdvancedGIF
LoopHead(r) ==
    IF r.i < r.maxFrames /\ r.isRecording
    THEN [r EXCEPT !.pc = "extracting", !.attempts = @ + 1]
    ELSE IF r.frames = <<>>
    THEN [r EXCEPT !.pc = "done", !.progress = 80, !.out = "rejected",
                   !.error = "No frames captured for GIF generation"]
    ELSE [r EXCEPT !.pc = "encoding", !.progress = 80, !.handed = r.frames]

\* frames, frameTimestamps and frameCount cleared as well, as resetRecording does
stopRecording_reset(r) ==
    [r EXCEPT !.isRecording = FALSE, !.aborted = TRUE, !.frames = <<>>, !.frameCount = 0,
              !.stoppedAt = r.attempts, !.stoppedFrames = r.frames]

\* EnhancedGIFExporter.stopRecording()
stopRecording(r) ==
    [r EXCEPT !.isRecording = FALSE, !.aborted = TRUE,
              !.stoppedAt = r.attempts, !.stoppedFrames = r.frames]

\* Math.min(Math.floor(options.duration / frameInterval), options.maxFrames) with the
\* quotient taken exactly
maxFramesOf_exact(options) ==
    Min((options.duration * options.fps) \div 1000,
        IF options.maxFrames = 0 THEN 120 ELSE options.maxFrames)

\* Math.min(Math.floor(options.duration / frameInterval), options.maxFrames || 120)
maxFramesOf(options) ==
    Min(FloorDividedByInterval(options.duration, options.fps),
        IF options.maxFrames = 0 THEN 120 ELSE options.maxFrames)

\* recordWithFrameCapture from its entry to the first await
Capture_Begin ==
    /\ recorder.pc = "idle"
    /\ recorder' = LoopHead([recorder EXCEPT !.maxFrames = maxFramesOf(recorder.options)])
    /\ UNCHANGED <<managerVars, env, testerVars, pngVars, serviceVars, resolution, validation, encoder>>

\* extractImageData settles.  Fulfilled: captureFrame stores the frame, the progress
\* is reported and, unless this was the last tick, waitForNextFrame is awaited.
\* Rejected: the catch of the loop logs it and the loop goes on.
Capture_Extracted ==
    /\ recorder.pc = "extracting"
    /\ \E extracted \in BOOLEAN :
        /\ ~extracted => recorder.failed < MaxCaptureFailures
        /\ recorder' =
            IF extracted
            THEN LET r == [recorder EXCEPT !.frames = Append(@, recorder.i),
                               !.frameCount = @ + 1,
                               !.succeeded = @ \cup {recorder.i},
                               !.progress = ((recorder.i + 1) * 80) \div recorder.maxFrames]
                 IN  IF r.i < r.maxFrames - 1
                     THEN [r EXCEPT !.pc = "waiting"]
                     ELSE LoopHead([r EXCEPT !.i = @ + 1])
            ELSE LoopHead([recorder EXCEPT !.failed = @ + 1, !.i = @ + 1])
    /\ UNCHANGED <<managerVars, env, testerVars, pngVars, serviceVars, resolution, validation, encoder>>

\* the promise of waitForNextFrame is fulfilled: by the timer, or at once when the
\* abort signal was already raised
Capture_NextFrame ==
    /\ recorder.pc = "waiting"
    /\ recorder' = LoopHead([recorder EXCEPT !.i = @ + 1])
    /\ UNCHANGED <<managerVars, env, testerVars, pngVars, serviceVars, resolution, validation, encoder>>

\* stopRecording() called by the owner of the exporter while an await is pending
Capture_Stop ==
    /\ recorder.pc \in {"extracting", "waiting"}
    /\ recorder.isRecording
    /\ recorder' = stopRecording(recorder)
    /\ UNCHANGED <<managerVars, env, testerVars, pngVars, serviceVars, resolution, validation, encoder>>

\* encodeAdvancedGIF: the import of advancedGifEncoder.js, a module the repository
\* does not have, is rejected; generateGIFFromFrames catches it and encodeFallbackGIF
\* loads the first frame into an Image
Capture_ImportRejected ==
    /\ recorder.pc = "encoding"
    /\ recorder' = [recorder EXCEPT !.pc = "fallback"]
    /\ UNCHANGED <<managerVars, env, testerVars, pngVars, serviceVars, resolution, validation, encoder>>

\* encodeFallbackGIF: img.onload calls encoder.addFrame, which GIFEncoder does not
\* define, so the TypeError is thrown inside the event handler and the awaited promise
\* is never settled; img.onerror rejects it
Capture_FallbackImage ==
    /\ recorder.pc = "fallback"
    /\ \E loaded \in BOOLEAN :
        recorder' = IF loaded
                    THEN [recorder EXCEPT !.pc = "done", !.out = "hung",
                                          !.error = "encoder.addFrame is not a function"]
                    ELSE [recorder EXCEPT !.pc = "done", !.out = "rejected",
                                          !.error = "image error event"]
    /\ UNCHANGED <<managerVars, env, testerVars, pngVars, serviceVars, resolution, validation, encoder>>

InitCapture ==
    /\ recorder \in {NewRecorder(o) : o \in RecordingOptions}
    /\ resolution = NoResolution
    /\ validation = NoResolution
    /\ encoder = NoEncoder
    /\ env = PlainBrowser
    /\ ServiceUnused
    /\ ManagerUnused
    /\ TesterUnused
    /\ PngUnused

NextCapture ==
    \/ Capture_Begin
    \/ Capture_Extracted
    \/ Capture_NextFrame
    \/ Capture_Stop
    \/ Capture_ImportRejected
    \/ Capture_FallbackImage

SpecCapture == InitCapture /\ [][NextCapture]_vars

(***************************************************************************)
(* GIFEncoder of gifEncoder.js.  A canvas handed to addFrameFromCanvas is  *)
(* null or a surface of one solid colour; a stored frame is the index its  *)
(* pixels were quantized to, kept with its size and the pixel it came      *)
(* from.  addFrameFromCanvas awaits the extraction of the image data, so   *)
(* several calls can be pending at once.  call records the call that       *)
(* settled last: what it was given, the stored state it found when it      *)
(* resumed, and how it ended.                                              *)
(***************************************************************************)

MaxEncoderFrames == 2
MaxPendingAdds == 2

transparencyThreshold == 128

\* one pixel at the transparency threshold, one just below it
Pixels ==
    {[r |-> 50, g |-> 128, b |-> 255, a |-> 128], [r |-> 255, g |-> 255, b |-> 255, a |-> 127]}

FrameSizes == {[width |-> 1, height |-> 1], [width |-> 2, height |-> 1]}

FrameDelays == {40, 100}

Stored(e) == [frames |-> e.frames, delays |-> e.delays, width |-> e.width, height |-> e.height]

\* the size written for a call that was given no surface
NoSize == [width |-> 0, height |-> 0]

NoCall ==
    [op |-> "none", size |-> NoSize, threw |-> FALSE, error |-> "none", bytes |-> FALSE,
     before |-> [frames |-> <<>>, delays |-> <<>>, width |-> 0, height |-> 0]]

NewEncoder ==
    [pc |-> "ready", frames |-> <<>>, delays |-> <<>>, width |-> 0, height |-> 0,
     pending |-> <<>>, call |-> NoCall]

\* eight levels a channel, a cube of 512 colours
quantizeColors_eightLevels(pixel) ==
    IF pixel.a < transparencyThreshold THEN 0
    ELSE (pixel.r \div 32) * 64 + (pixel.g \div 32) * 8 + (pixel.b \div 32) + 1

\* GIFEncoder.quantizeColors, for one pixel
quantizeColors(pixel) ==
    IF pixel.a < transparencyThreshold THEN 0
    ELSE (pixel.r \div 51) * 36 + (pixel.g \div 51) * 6 + (pixel.b \div 51) + 1

\* GIFEncoder.generateWebSafeColorTable: the colour at an index of the table
generateWebSafeColorTable(index) ==
    IF index \in 1..216
    THEN [r |-> ((index - 1) \div 36) * 51, g |-> (((index - 1) \div 6) % 6) * 51,
          b |-> ((index - 1) % 6) * 51]
    ELSE [r |-> 0, g |-> 0, b |-> 0]

\* the width and height taken from every frame, not from the first only
addFrame_resizes(e, canvas, extracted) ==
    LET call == [op |-> "addFrameFromCanvas", size |-> canvas.size, threw |-> TRUE,
                 error |-> "none", bytes |-> FALSE, before |-> Stored(e)]
    IN  IF ~extracted
        THEN [e EXCEPT !.call = [call EXCEPT !.error = "All image data extraction strategies failed"]]
        ELSE [e EXCEPT !.width = canvas.size.width, !.height = canvas.size.height,
                       !.frames = Append(@, [index |-> quantizeColors(canvas.pixel),
                                             size |-> canvas.size, pixel |-> canvas.pixel]),
                       !.delays = Append(@, canvas.delay),
                       !.call = [call EXCEPT !.threw = FALSE]]

\* GIFEncoder.addFrameFromCanvas from the end of the extraction on
addFrame(e, canvas, extracted) ==
    LET call == [op |-> "addFrameFromCanvas", size |-> canvas.size, threw |-> TRUE,
                 error |-> "none", bytes |-> FALSE, before |-> Stored(e)]
        sized == IF e.frames = <<>>
                 THEN [e EXCEPT !.width = canvas.size.width, !.height = canvas.size.height]
                 ELSE e
    IN  IF ~extracted
        THEN [e EXCEPT !.call = [call EXCEPT !.error = "All image data extraction strategies failed"]]
        ELSE IF canvas.size.width # sized.width \/ canvas.size.height # sized.height
        THEN [e EXCEPT !.call = [call EXCEPT !.error = "Frame dimensions mismatch"]]
        ELSE [sized EXCEPT !.frames = Append(@, [index |-> quantizeColors(canvas.pixel),
                                                 size |-> canvas.size, pixel |-> canvas.pixel]),
                           !.delays = Append(@, canvas.delay),
                           !.call = [call EXCEPT !.threw = FALSE]]

\* addFrameFromCanvas(canvas, {delay}) up to the await of extractImageData
Encoder_AddFrame ==
    /\ encoder.pc = "ready"
    /\ Len(encoder.frames) + Len(encoder.pending) < MaxEncoderFrames + MaxPendingAdds
    /\ Len(encoder.pending) < MaxPendingAdds
    /\ \E size \in FrameSizes, pixel \in Pixels, delay \in FrameDelays :
        encoder' = [encoder EXCEPT !.pending =
                        Append(@, [size |-> size, pixel |-> pixel, delay |-> delay])]
    /\ UNCHANGED <<managerVars, env, testerVars, pngVars, serviceVars, resolution, validation, recorder>>

\* addFrameFromCanvas(null): resolveCanvas returns null and the call throws
Encoder_AddNothing ==
    /\ encoder.pc = "ready"
    /\ encoder' = [encoder EXCEPT !.call =
                       [op |-> "addFrameFromCanvas", size |-> NoSize, threw |-> TRUE,
                        error |-> "Invalid canvas reference", bytes |-> FALSE,
                        before |-> Stored(encoder)]]
    /\ UNCHANGED <<managerVars, env, testerVars, pngVars, serviceVars, resolution, validation, recorder>>

\* the extraction of one pending call settles and the call runs to its end
Encoder_Extracted ==
    /\ encoder.pc = "ready"
    /\ \E n \in 1..Len(encoder.pending), extracted \in BOOLEAN :
        /\ extracted => Len(encoder.frames) < MaxEncoderFrames
        /\ encoder' = addFrame([encoder EXCEPT !.pending =
                                   SubSeq(@, 1, n - 1) \o SubSeq(@, n + 1, Len(@))],
                               encoder.pending[n], extracted)
    /\ UNCHANGED <<managerVars, env, testerVars, pngVars, serviceVars, resolution, validation, recorder>>

\* GIFEncoder.exportAsBlob(): generateGIF throws when there is no frame
Encoder_ExportAsBlob ==
    /\ encoder.pc = "ready"
    /\ encoder' = [encoder EXCEPT !.call =
                       [op |-> "exportAsBlob", size |-> NoSize,
                        threw |-> encoder.frames = <<>>,
                        error |-> IF encoder.frames = <<>> THEN "No frames to encode" ELSE "none",
                        bytes |-> encoder.frames # <<>>, before |-> Stored(encoder)]]
    /\ UNCHANGED <<managerVars, env, testerVars, pngVars, serviceVars, resolution, validation, recorder>>

InitEncoder ==
    /\ encoder = NewEncoder
    /\ resolution = NoResolution
    /\ validation = NoResolution
    /\ recorder = NoRecorder
    /\ env = PlainBrowser
    /\ ServiceUnused
    /\ ManagerUnused
    /\ TesterUnused
    /\ PngUnused

NextEncoder ==
    \/ Encoder_AddFrame
    \/ Encoder_AddNothing
    \/ Encoder_Extracted
    \/ Encoder_ExportAsBlob

SpecEncoder == InitEncoder /\ [][NextEncoder]_vars

(***************************************************************************)
(* GIFEncoder.generateGIF: the bytes of the file, as a function of the     *)
(* stored frames.  The encoder is taken with one to MaxGifFrames frames of *)
(* one solid colour each, as addFrameFromCanvas stores them; the indexed   *)
(* data of a frame is its index repeated width * height times.             *)
(***************************************************************************)

MaxGifFrames == 2

chunkSize == 255

GifPixels ==
    Pixels \cup {[r |-> 0, g |-> 0, b |-> 0, a |-> 255], [r |-> 255, g |-> 255, b |-> 255, a |-> 255]}

\* one sub-block, one sub-block and a byte, two full sub-blocks
GifSizes ==
    {[width |-> 1, height |-> 1], [width |-> 16, height |-> 16], [width |-> 255, height |-> 2]}

\* GIFEncoder.uint16ToBytes
uint16ToBytes(value) == <<value % 256, (value \div 256) % 256>>

\* stringToBytes('GIF89a') and stringToBytes('NETSCAPE2.0')
Signature == <<71, 73, 70, 56, 57, 97>>
Netscape == <<78, 69, 84, 83, 67, 65, 80, 69, 50, 46, 48>>

\* the while loop of generateWebSafeColorTable
RECURSIVE PadTable(_)
PadTable(colors) == IF Len(colors) < 768 THEN PadTable(colors \o <<0, 0, 0>>) ELSE colors

\* GIFEncoder.generateWebSafeColorTable: the whole table, three bytes a colour
WebSafeColorTable ==
    PadTable(<<0, 0, 0>> \o
             [n \in 1..648 |->
                 LET colour == generateWebSafeColorTable((n - 1) \div 3 + 1)
                 IN  CASE n % 3 = 1 -> colour.r [] n % 3 = 2 -> colour.g [] OTHER -> colour.b])

\* sub-blocks of up to 256 bytes
RECURSIVE lzwCompress_chunk256(_)
lzwCompress_chunk256(data) ==
    IF data = <<>> THEN <<>>
    ELSE LET chunk == SubSeq(data, 1, Min(chunkSize + 1, Len(data)))
         IN  <<Len(chunk)>> \o chunk
                 \o lzwCompress_chunk256(SubSeq(data, Len(chunk) + 1, Len(data)))

\* GIFEncoder.lzwCompress
RECURSIVE lzwCompress(_)
lzwCompress(data) ==
    IF data = <<>> THEN <<>>
    ELSE LET chunk == SubSeq(data, 1, Min(chunkSize, Len(data)))
         IN  <<Len(chunk)>> \o chunk \o lzwCompress(SubSeq(data, Len(chunk) + 1, Len(data)))

\* the Uint8Array that processFrame stored for a frame
IndexedData(frame) == [n \in 1..(frame.size.width * frame.size.height) |-> frame.index]

\* GIFEncoder.encodeFrame
encodeFrame(e, frame, delay) ==
    <<33, 249, 4, 4>> \o uint16ToBytes(delay \div 10) \o <<0, 0>>
        \o <<44>> \o uint16ToBytes(0) \o uint16ToBytes(0)
        \o uint16ToBytes(e.width) \o uint16ToBytes(e.height) \o <<0>>
        \o <<8>> \o lzwCompress(IndexedData(frame)) \o <<0>>

RECURSIVE encodeFrames(_, _)
encodeFrames(e, n) ==
    IF n > Len(e.frames) THEN <<>>
    ELSE encodeFrame(e, e.frames[n], e.delays[n]) \o encodeFrames(e, n + 1)

\* GIFEncoder.generateGIF, for an encoder that has frames
generateGIF(e) ==
    Signature \o uint16ToBytes(e.width) \o uint16ToBytes(e.height) \o <<247, 0, 0>>
        \o WebSafeColorTable
        \o <<33, 255, 11>> \o Netscape \o <<3, 1, 0, 0, 0>>
        \o encodeFrames(e, 1)
        \o <<59>>

\* the encoder after addFrameFromCanvas was called with each canvas in turn
RECURSIVE AddAll(_, _)
AddAll(e, canvases) ==
    IF canvases = <<>> THEN e ELSE AddAll(addFrame(e, Head(canvases), TRUE), Tail(canvases))

GifCanvases(size) ==
    UNION {[1..n -> [size : {size}, pixel : GifPixels, delay : FrameDelays]] : n \in 1..MaxGifFrames}

\* GIFEncoder.generateGIF()
Gif_Generate ==
    /\ encoder.pc = "filled"
    /\ encoder' = [encoder EXCEPT !.pc = "generated",
                       !.threw = encoder.frames = <<>>,
                       !.file = IF encoder.frames = <<>> THEN <<>> ELSE generateGIF(encoder)]
    /\ UNCHANGED <<managerVars, env, testerVars, pngVars, serviceVars, resolution, validation, recorder>>

InitGif ==
    /\ encoder \in {[pc |-> "filled", frames |-> e.frames, delays |-> e.delays,
                     width |-> e.width, height |-> e.height, threw |-> FALSE, file |-> <<>>] :
                        e \in {AddAll(NewEncoder, canvases) :
                                  canvases \in UNION {GifCanvases(size) : size \in GifSizes}}}
    /\ resolution = NoResolution
    /\ validation = NoResolution
    /\ recorder = NoRecorder
    /\ env = PlainBrowser
    /\ ServiceUnused
    /\ ManagerUnused
    /\ TesterUnused
    /\ PngUnused

NextGif == Gif_Generate

SpecGif == InitGif /\ [][NextGif]_vars

(***************************************************************************)
(* The CanvasContextManager: a pool of canvases by cache key and the set   *)
(* of canvases handed out.  The clock is Date.now() in milliseconds; the   *)
(* cleanup timer of the constructor fires every cleanupPeriod.             *)
(***************************************************************************)

MaxCanvases == 2
MaxElapses == 2

maxPoolSize == 10
poolCeiling == 4 * 1024 * 1024
staleAfter == 300000
cleanupPeriod == 30000

\* the times that pass between two calls
Elapsed == {15000, 300000}

\* exactly the ceiling of 4 MB, and 16 MB
CanvasSizes ==
    {[width |-> 1024, height |-> 1024], [width |-> 2000, height |-> 2000]}

NoPoolCall ==
    [op |-> "none", canvas |-> 0, reused |-> FALSE, wasActive |-> FALSE, age |-> 0,
     wasHeld |-> FALSE, result |-> FALSE]

\* elapses counts the steps of the clock; canvases are numbered in the order of their
\* creation; the cache key of a canvas is its size, the context options being the
\* defaults, and keyed says that its metadata has a cacheKey (that of an
\* OffscreenCanvas has none); canvasPool[key] = 0: no entry; held: the canvases that
\* were returned to a caller who has not called releaseCanvas on them yet
NewCanvasManager ==
    [pc |-> "ready", now |-> 0, elapses |-> 0, canvases |-> <<>>, contexts |-> {},
     activeCanvases |-> {}, canvasPool |-> [key \in CanvasSizes |-> 0], held |-> {},
     last |-> NoPoolCall]

PoolSize(m) == Cardinality({key \in DOMAIN m.canvasPool : m.canvasPool[key] # 0})

\* CanvasContextManager.disposeCanvas
disposeCanvas(m, canvas) ==
    [m EXCEPT !.activeCanvases = @ \ {canvas},
              !.contexts = @ \ {canvas},
              !.canvasPool = IF m.canvases[canvas].metadata /\ m.canvases[canvas].keyed
                             THEN [@ EXCEPT ![m.canvases[canvas].cacheKey] = 0] ELSE @,
              !.canvases[canvas].metadata = FALSE]

\* a pool that takes a canvas however many entries it has
shouldPoolCanvas_anyPoolSize(m, canvas) ==
    LET metadata == m.canvases[canvas]
    IN  /\ metadata.metadata
        /\ ~(metadata.cacheKey.width * metadata.cacheKey.height * 4 > poolCeiling)
        /\ ~(m.now - metadata.created > staleAfter)

\* CanvasContextManager.shouldPoolCanvas
shouldPoolCanvas(m, canvas) ==
    LET metadata == m.canvases[canvas]
    IN  /\ metadata.metadata
        /\ ~(PoolSize(m) >= maxPoolSize)
        /\ ~(metadata.cacheKey.width * metadata.cacheKey.height * 4 > poolCeiling)
        /\ ~(m.now - metadata.created > staleAfter)

\* CanvasContextManager.addToPool
addToPool(m, canvas) ==
    IF m.canvases[canvas].metadata
    THEN [m EXCEPT !.canvasPool[m.canvases[canvas].cacheKey] = canvas]
    ELSE m

\* CanvasContextManager.releaseCanvas; canvas 0 is null
releaseCanvas(m, canvas) ==
    IF canvas = 0 \/ canvas \notin m.activeCanvases THEN m
    ELSE LET released == [m EXCEPT !.activeCanvases = @ \ {canvas}]
         IN  IF ~m.canvases[canvas].metadata THEN disposeCanvas(released, canvas)
             ELSE IF shouldPoolCanvas(released, canvas) THEN addToPool(released, canvas)
             ELSE disposeCanvas(released, canvas)

\* a pooled canvas handed out whether or not it is in the active set
createCanvas_unguarded(m, size, reuseExisting, context) ==
    LET pooledCanvas == m.canvasPool[size]
        canvas == Len(m.canvases) + 1
    IN  IF reuseExisting /\ pooledCanvas # 0
        THEN [m EXCEPT !.activeCanvases = @ \cup {pooledCanvas},
                       !.last = [op |-> "createCanvas", canvas |-> pooledCanvas, reused |-> TRUE,
                                 wasActive |-> pooledCanvas \in m.activeCanvases,
                                 age |-> m.now - m.canvases[pooledCanvas].created]]
        ELSE IF ~context
        THEN [m EXCEPT !.last = [NoPoolCall EXCEPT !.op = "createCanvas"]]
        ELSE [m EXCEPT !.canvases = Append(@, [cacheKey |-> size, created |-> m.now, metadata |-> TRUE,
                                                  keyed |-> TRUE]),
                       !.contexts = @ \cup {canvas},
                       !.activeCanvases = @ \cup {canvas},
                       !.last = [NoPoolCall EXCEPT !.op = "createCanvas", !.canvas = canvas]]

\* CanvasContextManager.createCanvas with createNewCanvas; context: getContext gave a
\* context.  last.canvas is the canvas returned, 0 for null.
createCanvas(m, size, reuseExisting, context) ==
    LET pooledCanvas == m.canvasPool[size]
        canvas == Len(m.canvases) + 1
    IN  IF reuseExisting /\ pooledCanvas # 0 /\ pooledCanvas \notin m.activeCanvases
        THEN [m EXCEPT !.activeCanvases = @ \cup {pooledCanvas},
                       !.last = [op |-> "createCanvas", canvas |-> pooledCanvas, reused |-> TRUE,
                                 wasActive |-> pooledCanvas \in m.activeCanvases,
                                 age |-> m.now - m.canvases[pooledCanvas].created]]
        ELSE IF ~context
        THEN [m EXCEPT !.last = [NoPoolCall EXCEPT !.op = "createCanvas"]]
        ELSE [m EXCEPT !.canvases = Append(@, [cacheKey |-> size, created |-> m.now, metadata |-> TRUE,
                                                  keyed |-> TRUE]),
                       !.contexts = @ \cup {canvas},
                       !.activeCanvases = @ \cup {canvas},
                       !.last = [NoPoolCall EXCEPT !.op = "createCanvas", !.canvas = canvas]]

\* the first loop of performCleanup, over the entries of the pool in any order; the
\* second never runs: addToPool follows a shouldPoolCanvas that saw fewer than
\* maxPoolSize entries
RECURSIVE performCleanup(_, _)
performCleanup(m, keys) ==
    IF keys = {} THEN m
    ELSE LET key == CHOOSE k \in keys : TRUE
             canvas == m.canvasPool[key]
             cleaned == IF canvas # 0 /\ m.canvases[canvas].metadata
                           /\ m.now - m.canvases[canvas].created > staleAfter
                        THEN disposeCanvas(m, canvas) ELSE m
         IN  performCleanup(cleaned, keys \ {key})

\* CanvasContextManager.performAggressiveCleanup
RECURSIVE performAggressiveCleanup(_, _)
performAggressiveCleanup(m, keys) ==
    IF keys = {} THEN [m EXCEPT !.canvasPool = [key \in DOMAIN m.canvasPool |-> 0]]
    ELSE LET key == CHOOSE k \in keys : TRUE
         IN  performAggressiveCleanup(
                 IF m.canvasPool[key] # 0 THEN disposeCanvas(m, m.canvasPool[key]) ELSE m,
                 keys \ {key})

\* CanvasContextManager.createOffscreenCanvas; offscreen: OffscreenCanvas is defined and
\* gives a context.  The canvas is not put into the active set.
createOffscreenCanvas(m, size, offscreen, context) ==
    IF offscreen
    THEN [m EXCEPT !.canvases = Append(@, [cacheKey |-> NoSize, created |-> m.now,
                                          metadata |-> TRUE, keyed |-> FALSE]),
                   !.contexts = @ \cup {Len(m.canvases) + 1},
                   !.last = [NoPoolCall EXCEPT !.op = "createOffscreenCanvas",
                                               !.canvas = Len(m.canvases) + 1]]
    ELSE createCanvas(m, size, TRUE, context)

\* the caller keeps the canvas that the call returned
Keep(m) == [m EXCEPT !.held = IF m.last.canvas # 0 THEN @ \cup {m.last.canvas} ELSE @]

\* createCanvas(width, height, {reuseExisting})
Pool_CreateCanvas ==
    /\ canvasManager.pc = "ready"
    /\ \E size \in CanvasSizes, reuseExisting \in BOOLEAN, context \in BOOLEAN :
        /\ canvasManager' = Keep(createCanvas(canvasManager, size, reuseExisting, context))
        /\ Len(canvasManager'.canvases) <= MaxCanvases
    /\ UNCHANGED <<coreVars, extraVars, videoRecorder, codecChoice, strategyChoice>>

\* createOffscreenCanvas(width, height)
Pool_CreateOffscreenCanvas ==
    /\ canvasManager.pc = "ready"
    /\ \E size \in CanvasSizes, offscreen \in BOOLEAN, context \in BOOLEAN :
        /\ canvasManager' = Keep(createOffscreenCanvas(canvasManager, size, offscreen, context))
        /\ Len(canvasManager'.canvases) <= MaxCanvases
    /\ UNCHANGED <<coreVars, extraVars, videoRecorder, codecChoice, strategyChoice>>

\* releaseCanvas(canvas) with null, a canvas that was handed out or one that was not
Pool_ReleaseCanvas ==
    /\ canvasManager.pc = "ready"
    /\ \E canvas \in 0..Len(canvasManager.canvases) :
        canvasManager' = [releaseCanvas(canvasManager, canvas) EXCEPT
                             !.held = @ \ {canvas},
                             !.last = [NoPoolCall EXCEPT
                                          !.op = "releaseCanvas", !.canvas = canvas,
                                          !.wasHeld = canvas \in canvasManager.held,
                                          !.result = canvas \in canvasManager.activeCanvases]]
    /\ UNCHANGED <<coreVars, extraVars, videoRecorder, codecChoice, strategyChoice>>

\* time passes; the cleanup timer fires at every multiple of cleanupPeriod, and the
\* last of its runs in the interval disposes of all that the earlier ones would
Pool_Elapse ==
    /\ canvasManager.pc = "ready"
    /\ \E elapsed \in Elapsed :
        LET now == canvasManager.now + elapsed
            fired == (now \div cleanupPeriod) * cleanupPeriod
            cleaned == IF fired > canvasManager.now
                       THEN performCleanup([canvasManager EXCEPT !.now = fired], CanvasSizes)
                       ELSE canvasManager
        IN  /\ canvasManager.elapses < MaxElapses
            /\ canvasManager' = [cleaned EXCEPT !.now = now, !.elapses = @ + 1,
                                                 !.last = NoPoolCall]
    /\ UNCHANGED <<coreVars, extraVars, videoRecorder, codecChoice, strategyChoice>>

\* the page is hidden, or checkMemoryPressure sees the heap more than 80% full
Pool_AggressiveCleanup ==
    /\ canvasManager.pc = "ready"
    /\ canvasManager' = [performAggressiveCleanup(canvasManager, CanvasSizes) EXCEPT
                            !.last = NoPoolCall]
    /\ UNCHANGED <<coreVars, extraVars, videoRecorder, codecChoice, strategyChoice>>

InitPool ==
    /\ canvasManager = NewCanvasManager
    /\ ServiceUnusedBut("canvasManager")
    /\ CoreUnused
    /\ ManagerUnused
    /\ TesterUnused
    /\ PngUnused

NextPool ==
    \/ Pool_CreateCanvas
    \/ Pool_CreateOffscreenCanvas
    \/ Pool_ReleaseCanvas
    \/ Pool_Elapse
    \/ Pool_AggressiveCleanup

SpecPool == InitPool /\ [][NextPool]_vars

(***************************************************************************)
(* The same manager with canvases of more than maxPoolSize different cache *)
(* keys, so that the pool can fill up.  The canvases are created in the    *)
(* order of their keys, each with a new key, and the clock stands still:   *)
(* the cleanup timer and stale canvases are in SpecPool.                   *)
(***************************************************************************)

MaxFillCanvases == 11

ManySizes == {[width |-> k, height |-> 1] : k \in 1..MaxFillCanvases}

\* createCanvas(k, 1) for the next new key k
Fill_CreateCanvas ==
    /\ canvasManager.pc = "filling"
    /\ Len(canvasManager.canvases) < MaxFillCanvases
    /\ canvasManager' =
           [createCanvas(canvasManager,
                         [width |-> Len(canvasManager.canvases) + 1, height |-> 1], TRUE, TRUE)
            EXCEPT !.last = NoPoolCall]
    /\ UNCHANGED <<coreVars, extraVars, videoRecorder, codecChoice, strategyChoice>>

\* releaseCanvas(canvas) of a canvas in use
Fill_ReleaseCanvas ==
    /\ canvasManager.pc = "filling"
    /\ \E canvas \in canvasManager.activeCanvases :
        canvasManager' = releaseCanvas(canvasManager, canvas)
    /\ UNCHANGED <<coreVars, extraVars, videoRecorder, codecChoice, strategyChoice>>

\* the page is hidden, or checkMemoryPressure sees the heap more than 80% full
Fill_AggressiveCleanup ==
    /\ canvasManager.pc = "filling"
    /\ canvasManager' = performAggressiveCleanup(canvasManager, ManySizes)
    /\ UNCHANGED <<coreVars, extraVars, videoRecorder, codecChoice, strategyChoice>>

InitPoolFill ==
    /\ canvasManager = [NewCanvasManager EXCEPT !.pc = "filling",
                                                !.canvasPool = [key \in ManySizes |-> 0]]
    /\ ServiceUnusedBut("canvasManager")
    /\ CoreUnused
    /\ ManagerUnused
    /\ TesterUnused
    /\ PngUnused

NextPoolFill ==
    \/ Fill_CreateCanvas
    \/ Fill_ReleaseCanvas
    \/ Fill_AggressiveCleanup

SpecPoolFill == InitPoolFill /\ [][NextPoolFill]_vars

(***************************************************************************)
(* The frame loops of RealGIFExporter.startRecording (realGifExporter.js)  *)
(* and of CanvasExportSystem.exportGIF (exportTester.js) for the duration  *)
(* and fps of the options.  0 stands for an option that was not given.     *)
(* The durations are multiples of 250 ms, for which duration / 1000 is     *)
(* exact in binary floating point.                                         *)
(***************************************************************************)

DefaultMaxFrames == 120

LoopDurations == {0, 250, 1000, 4000, 5000}
LoopRates == {0, 10, 30}

Ceiling(a, b) == (a + b - 1) \div b

\* RealGIFExporter.startRecording: this.maxFrames of the constructor is overwritten
Real_maxFrames(duration, fps) ==
    ((IF duration = 0 THEN 4000 ELSE duration) * (IF fps = 0 THEN 30 ELSE fps)) \div 1000

\* exportGIF of exportTester.js: the frameCount of its for loop
CES_frameCount(duration, fps) ==
    Ceiling((IF duration = 0 THEN 4000 ELSE duration) * (IF fps = 0 THEN 30 ELSE fps), 1000)

NewFrameLoop ==
    [pc |-> "idle", exporter |-> "none", duration |-> 0, fps |-> 0, maxFrames |-> DefaultMaxFrames,
     isRecording |-> FALSE, frameCount |-> 0, frames |-> 0]

\* new RealGIFExporter().startRecording(canvas, {duration, fps})
Loop_Real_StartRecording ==
    /\ frameLoop.pc = "idle"
    /\ \E duration \in LoopDurations, fps \in LoopRates :
        frameLoop' = [frameLoop EXCEPT !.pc = "capturing", !.exporter = "real",
                                       !.duration = duration, !.fps = fps,
                                       !.isRecording = TRUE, !.frameCount = 0,
                                       !.maxFrames = Real_maxFrames(duration, fps),
                                       !.frames = 0]
    /\ UNCHANGED <<coreVars, baseServiceVars, resolverCache, converter, embeddedGif>>

\* RealGIFExporter.captureFrames: one frame and the timer for the next call, or
\* createGIF when the recording was stopped or maxFrames frames were taken
Loop_Real_CaptureFrames ==
    /\ frameLoop.pc = "capturing"
    /\ frameLoop.exporter = "real"
    /\ frameLoop' =
           IF ~frameLoop.isRecording \/ frameLoop.frameCount >= frameLoop.maxFrames
           THEN [frameLoop EXCEPT !.pc = "encoding"]
           ELSE [frameLoop EXCEPT !.frames = @ + 1, !.frameCount = @ + 1]
    /\ UNCHANGED <<coreVars, baseServiceVars, resolverCache, converter, embeddedGif>>

\* RealGIFExporter.stopRecording, called while the loop waits for its timer
Loop_Real_StopRecording ==
    /\ frameLoop.pc = "capturing"
    /\ frameLoop.exporter = "real"
    /\ frameLoop.isRecording
    /\ frameLoop' = [frameLoop EXCEPT !.isRecording = FALSE]
    /\ UNCHANGED <<coreVars, baseServiceVars, resolverCache, converter, embeddedGif>>

\* canvasExportSystem.exportGIF(canvas, {duration, fps}) up to its for loop
Loop_CES_ExportGIF ==
    /\ frameLoop.pc = "idle"
    /\ \E duration \in LoopDurations, fps \in LoopRates :
        frameLoop' = [frameLoop EXCEPT !.pc = "capturing", !.exporter = "system",
                                       !.duration = duration, !.fps = fps,
                                       !.maxFrames = CES_frameCount(duration, fps)]
    /\ UNCHANGED <<coreVars, baseServiceVars, resolverCache, converter, embeddedGif>>

\* one turn of the for loop: addFrameFromCanvas adds the frame or throws, and the
\* catch of exportGIF falls back to exportPNG
Loop_CES_AddFrame ==
    /\ frameLoop.pc = "capturing"
    /\ frameLoop.exporter = "system"
    /\ \E added \in BOOLEAN :
        frameLoop' =
           IF ~(frameLoop.frameCount < frameLoop.maxFrames)
           THEN [frameLoop EXCEPT !.pc = "encoding"]
           ELSE IF added
           THEN [frameLoop EXCEPT !.frames = @ + 1, !.frameCount = @ + 1]
           ELSE [frameLoop EXCEPT !.pc = "png_fallback"]
    /\ UNCHANGED <<coreVars, baseServiceVars, resolverCache, converter, embeddedGif>>

InitFrameLoop ==
    /\ frameLoop = NewFrameLoop
    /\ ServiceUnusedBut("frameLoop")
    /\ CoreUnused
    /\ ManagerUnused
    /\ TesterUnused
    /\ PngUnused

NextFrameLoop ==
    \/ Loop_Real_StartRecording
    \/ Loop_Real_CaptureFrames
    \/ Loop_Real_StopRecording
    \/ Loop_CES_ExportGIF
    \/ Loop_CES_AddFrame

SpecFrameLoop == InitFrameLoop /\ [][NextFrameLoop]_vars

(***************************************************************************)
(* CanvasReferenceResolver.resolveCanvasReference with its resolverCache,  *)
(* called on the objects of a page: three canvas elements and two React    *)
(* refs.  The clock is Date.now() in milliseconds.                         *)
(***************************************************************************)

MaxResolverCalls == 3
MaxResolverClock == 2

maxCacheSize == 50
maxAge == 5000

\* the objects, with the class name of their constructor, the canvas they lead to,
\* and the size of a canvas
PageObjects ==
    {[name |-> "canvasA", class |-> "HTMLCanvasElement", canvas |-> "canvasA", size |-> <<800, 600>>],
     [name |-> "canvasB", class |-> "HTMLCanvasElement", canvas |-> "canvasB", size |-> <<800, 600>>],
     [name |-> "canvasC", class |-> "HTMLCanvasElement", canvas |-> "canvasC", size |-> <<400, 300>>],
     [name |-> "refA", class |-> "Object", canvas |-> "canvasA", size |-> <<0, 0>>],
     [name |-> "refB", class |-> "Object", canvas |-> "canvasB", size |-> <<0, 0>>]}

\* CanvasReferenceResolver.generateCacheKey for an object: the parts of the key
generateCacheKey(input, now) ==
    [class |-> input.class,
     canvas |-> IF input.class = "HTMLCanvasElement" THEN input.size ELSE <<0, 0>>,
     hasCurrent |-> input.class = "Object",
     hasCanvas |-> FALSE,
     now |-> now]

\* performResolution for these objects: the element itself, or the current of the ref
performResolution(input) ==
    [success |-> TRUE, canvas |-> input.canvas,
     type |-> IF input.class = "Object" THEN "react-ref-canvas" ELSE "html-canvas"]

\* the positions of the cache that hold the key
Cached(cache, key) == {i \in DOMAIN cache : cache[i].key = key}

Without(cache, key) == SelectSeq(cache, LAMBDA entry : entry.key # key)

\* CanvasReferenceResolver.cacheResult: the cache in the order of insertion
cacheResult(cache, key, result, now) ==
    Append(Without(IF Len(cache) >= maxCacheSize THEN Tail(cache) ELSE cache, key),
           [key |-> key, result |-> result, timestamp |-> now])

\* CanvasReferenceResolver.isCacheValid
isCacheValid(cached, now) == now - cached.timestamp < maxAge

NewResolver ==
    [pc |-> "ready", now |-> 0, calls |-> 0, cache |-> <<>>,
     last |-> [input |-> "none", canvas |-> "none", expected |-> "none", cached |-> FALSE]]

\* resolveCanvasReference(input); the clock may tick while the call runs
Resolver_Resolve ==
    /\ resolverCache.pc = "ready"
    /\ resolverCache.calls < MaxResolverCalls
    /\ \E input \in PageObjects, tick \in 0..1 :
        LET now == resolverCache.now
            cacheKey == generateCacheKey(input, now)
            hits == Cached(resolverCache.cache, cacheKey)
            cached == resolverCache.cache[CHOOSE i \in hits : TRUE]
            valid == hits # {} /\ isCacheValid(cached, now)
            result == IF valid THEN cached.result ELSE performResolution(input)
            kept == Without(resolverCache.cache, cacheKey)
        IN  /\ now + tick <= MaxResolverClock
            /\ resolverCache' =
                   [resolverCache EXCEPT
                       !.now = now + tick,
                       !.calls = @ + 1,
                       !.cache = IF valid THEN @
                                 ELSE cacheResult(kept, cacheKey, result, now + tick),
                       !.last = [input |-> input.name, canvas |-> result.canvas,
                                 expected |-> input.canvas, cached |-> valid]]
    /\ UNCHANGED <<coreVars, baseServiceVars, frameLoop, converter, embeddedGif>>

\* a millisecond passes between two calls
Resolver_Elapse ==
    /\ resolverCache.pc = "ready"
    /\ resolverCache.now < MaxResolverClock
    /\ resolverCache' = [resolverCache EXCEPT !.now = @ + 1]
    /\ UNCHANGED <<coreVars, baseServiceVars, frameLoop, converter, embeddedGif>>

InitResolver ==
    /\ resolverCache = NewResolver
    /\ ServiceUnusedBut("resolverCache")
    /\ CoreUnused
    /\ ManagerUnused
    /\ TesterUnused
    /\ PngUnused

NextResolver == Resolver_Resolve \/ Resolver_Elapse

SpecResolver == InitResolver /\ [][NextResolver]_vars

(***************************************************************************)
(* CanvasValidator.extractImageData with the conversionCache of            *)
(* convertToExportableCanvas.  The content of a canvas is the number of    *)
(* times it was drawn on, and an image is the canvas and the content it    *)
(* shows.  The options of the calls are the same (none given).  last is    *)
(* the last call: its input, the image it returned, and shown, what the    *)
(* input showed when the call was made.                                    *)
(***************************************************************************)

MaxExtracts == 2
MaxDraws == 1
MaxConverterElapses == 1

conversionCacheSize == 5
conversionMaxAge == 30000

ConverterElapsed == {1, 30000}

\* two OffscreenCanvases of the same size, a smaller one, and a canvas element
ConverterCanvases ==
    {[name |-> "offscreenA", type |-> "offscreen-canvas", size |-> <<800, 600>>],
     [name |-> "offscreenB", type |-> "offscreen-canvas", size |-> <<800, 600>>],
     [name |-> "offscreenC", type |-> "offscreen-canvas", size |-> <<400, 300>>],
     [name |-> "elementA", type |-> "html-canvas", size |-> <<800, 600>>]}

ConverterNames == {canvas.name : canvas \in ConverterCanvases}

\* CanvasValidator.needsConversion
needsConversion(type) ==
    CASE type \in {"html-canvas", "three-renderer", "webgl-context", "2d-context",
                   "react-ref-canvas"} -> FALSE
      [] OTHER -> TRUE

\* CanvasValidator.generateCacheKey: type, width and height of the canvas, the options
Conversion_generateCacheKey(canvas) ==
    [type |-> canvas.type, width |-> canvas.size[1], height |-> canvas.size[2], options |-> "{}"]

\* CanvasValidator.isCacheValid
Conversion_isCacheValid(cached, now) == now - cached.timestamp < conversionMaxAge

\* CanvasValidator.cacheConversion: the cache in the order of insertion
cacheConversion(cache, key, image, now) ==
    Append(Without(IF Len(cache) >= conversionCacheSize THEN Tail(cache) ELSE cache, key),
           [key |-> key, image |-> image, timestamp |-> now])

\* what toDataURL gives for a canvas element, which shows its content of the moment,
\* and for the copy that convertOffscreenCanvas makes, which shows the content it was
\* made from
Image(name, content) == [canvas |-> name, content |-> content]

\* convertToExportableCanvas(canvas) for a valid canvas: <<cache, image to export>>
convertToExportableCanvas(c, canvas) ==
    LET cacheKey == Conversion_generateCacheKey(canvas)
        hits == Cached(c.cache, cacheKey)
        cached == c.cache[CHOOSE i \in hits : TRUE]
        now == Image(canvas.name, c.content[canvas.name])
    IN  IF ~needsConversion(canvas.type) THEN <<c.cache, now>>
        ELSE IF hits # {} /\ Conversion_isCacheValid(cached, c.now)
        THEN <<c.cache, cached.image>>
        ELSE <<cacheConversion(Without(c.cache, cacheKey), cacheKey, now, c.now), now>>

NewConverter ==
    [pc |-> "ready", now |-> 0, elapses |-> 0, calls |-> 0, cache |-> <<>>,
     content |-> [name \in ConverterNames |-> 0],
     last |-> [input |-> "none", image |-> Image("none", 0), shown |-> Image("none", 0),
               cached |-> FALSE]]

\* canvasValidator.extractImageData(canvas)
Converter_ExtractImageData ==
    /\ converter.pc = "ready"
    /\ converter.calls < MaxExtracts
    /\ \E canvas \in ConverterCanvases :
        LET converted == convertToExportableCanvas(converter, canvas)
        IN  converter' = [converter EXCEPT
                             !.calls = @ + 1,
                             !.cache = converted[1],
                             !.last = [input |-> canvas.name, image |-> converted[2],
                                       shown |-> Image(canvas.name,
                                                       converter.content[canvas.name]),
                                       cached |-> converted[1] = converter.cache
                                                    /\ needsConversion(canvas.type)]]
    /\ UNCHANGED <<coreVars, baseServiceVars, frameLoop, resolverCache, embeddedGif>>

\* the page draws the next frame of its animation on a canvas
Converter_Draw ==
    /\ converter.pc = "ready"
    /\ \E name \in ConverterNames :
        /\ converter.content[name] < MaxDraws
        /\ converter' = [converter EXCEPT !.content[name] = @ + 1]
    /\ UNCHANGED <<coreVars, baseServiceVars, frameLoop, resolverCache, embeddedGif>>

\* time passes between two calls
Converter_Elapse ==
    /\ converter.pc = "ready"
    /\ converter.elapses < MaxConverterElapses
    /\ \E elapsed \in ConverterElapsed :
        converter' = [converter EXCEPT !.now = @ + elapsed, !.elapses = @ + 1]
    /\ UNCHANGED <<coreVars, baseServiceVars, frameLoop, resolverCache, embeddedGif>>

InitConverter ==
    /\ converter = NewConverter
    /\ ServiceUnusedBut("converter")
    /\ CoreUnused
    /\ ManagerUnused
    /\ TesterUnused
    /\ PngUnused

NextConverter == Converter_ExtractImageData \/ Converter_Draw \/ Converter_Elapse

SpecConverter == InitConverter /\ [][NextConverter]_vars

(***************************************************************************)
(* EmbeddedGIF of gifLibraryHandler.js, used as encodeWithMainLibrary uses *)
(* it: on('finished', resolve), addFrame for every frame, render().        *)
(* progressEvents counts the 'progress' events emitted, up to              *)
(* MaxProgressEvents, and finished the 'finished' events; settled: the     *)
(* promise of encodeWithMainLibrary is resolved.                           *)
(***************************************************************************)

MaxEmbeddedFrames == 3
MaxProgressEvents == 20
MaxChunksPerCallback == 2

NewEmbeddedGif ==
    [pc |-> "adding", path |-> "none", frames |-> 0, isRendering |-> FALSE,
     progressEvents |-> 0, finished |-> 0, settled |-> FALSE]

\* EmbeddedGIF.processFrameChunk, chunks times: it emits 'progress' and leaves
\* this.frames as it is
processFrameChunk(g, chunks) ==
    [g EXCEPT !.progressEvents = Min(@ + chunks, MaxProgressEvents)]

\* EmbeddedGIF.finishRendering: emit('finished', blob) calls resolve
finishRendering(g) ==
    [g EXCEPT !.pc = "finished", !.isRendering = FALSE, !.finished = @ + 1, !.settled = TRUE]

\* the end of renderFrame and of processChunk: the next callback, or finishRendering
RescheduleOrFinish(g) ==
    IF g.frames > 0 THEN [g EXCEPT !.pc = "scheduled"] ELSE finishRendering(g)

\* gif.addFrame(canvas, {delay, copy: true})
Embedded_AddFrame ==
    /\ embeddedGif.pc = "adding"
    /\ embeddedGif.frames < MaxEmbeddedFrames
    /\ embeddedGif' = [embeddedGif EXCEPT !.frames = @ + 1]
    /\ UNCHANGED <<coreVars, baseServiceVars, frameLoop, resolverCache, converter>>

\* gif.render(): requestIdleCallback(renderFrame) where the browser has it, else
\* setTimeout(() => this.renderWithTimeout(), 0)
Embedded_Render ==
    /\ embeddedGif.pc = "adding"
    /\ ~embeddedGif.isRendering
    /\ \E idle \in BOOLEAN :
        embeddedGif' = [embeddedGif EXCEPT !.pc = "scheduled", !.isRendering = TRUE,
                                           !.path = IF idle THEN "idle" ELSE "timeout"]
    /\ UNCHANGED <<coreVars, baseServiceVars, frameLoop, resolverCache, converter>>

\* the browser takes the callback that is due, when it is idle or when the timer has
\* run out, and calls it
Embedded_Dispatch ==
    /\ embeddedGif.pc = "scheduled"
    /\ embeddedGif' = [embeddedGif EXCEPT !.pc = "running"]
    /\ UNCHANGED <<coreVars, baseServiceVars, frameLoop, resolverCache, converter>>

\* renderFrame(deadline): processFrameChunk while the deadline has time left and there
\* are frames, for at most 16 ms
Embedded_RenderFrame ==
    /\ embeddedGif.pc = "running"
    /\ embeddedGif.path = "idle"
    /\ \E chunks \in 0..MaxChunksPerCallback :
        /\ embeddedGif.frames = 0 => chunks = 0
        /\ embeddedGif' = RescheduleOrFinish(processFrameChunk(embeddedGif, chunks))
    /\ UNCHANGED <<coreVars, baseServiceVars, frameLoop, resolverCache, converter>>

\* processChunk of renderWithTimeout: processFrameChunk while there are frames, for
\* 16 ms
Embedded_ProcessChunk ==
    /\ embeddedGif.pc = "running"
    /\ embeddedGif.path = "timeout"
    /\ \E chunks \in 0..MaxChunksPerCallback :
        /\ chunks = 0 <=> embeddedGif.frames = 0
        /\ embeddedGif' = RescheduleOrFinish(processFrameChunk(embeddedGif, chunks))
    /\ UNCHANGED <<coreVars, baseServiceVars, frameLoop, resolverCache, converter>>

InitEmbedded ==
    /\ embeddedGif = NewEmbeddedGif
    /\ ServiceUnusedBut("embeddedGif")
    /\ CoreUnused
    /\ ManagerUnused
    /\ TesterUnused
    /\ PngUnused

NextEmbedded ==
    \/ Embedded_AddFrame
    \/ Embedded_Render
    \/ Embedded_Dispatch
    \/ Embedded_RenderFrame
    \/ Embedded_ProcessChunk

SpecEmbedded == InitEmbedded /\ [][NextEmbedded]_vars

\* the browser calls a callback that is due, and the callback runs to its end
SpecEmbeddedLive ==
    /\ SpecEmbedded
    /\ WF_vars(Embedded_Dispatch)
    /\ WF_vars(Embedded_RenderFrame)
    /\ WF_vars(Embedded_ProcessChunk)

(***************************************************************************)
(* WebCodecsHandler.getBestCodec, applied to the codecs that               *)
(* initializeCodecSupport found supported and to the caller's requirements.*)
(***************************************************************************)

\* the codecs probed by initializeCodecSupport that getBestCodec can return
DetectedCodecs ==
    {"avc1.42E01E", "avc1.4D401E", "avc1.64001E", "hev1.1.6.L93.B0", "vp8", "vp09.00.10.08",
     "av01.0.05M.08"}

\* requirements.preferQuality: "undefined" when the caller did not give it
Requirements == [preferredCodec : DetectedCodecs \cup {"undefined"},
                 preferQuality : {"undefined", "true", "false"}]

RECURSIVE FirstSupported(_, _)
FirstSupported(codecPriority, supportedCodecs) ==
    IF codecPriority = <<>> THEN "No supported video codecs found"
    ELSE IF Head(codecPriority) \in supportedCodecs THEN Head(codecPriority)
    ELSE FirstSupported(Tail(codecPriority), supportedCodecs)

QualityFirst ==
    <<"av01.0.05M.08", "hev1.1.6.L93.B0", "avc1.64001E", "vp09.00.10.08", "avc1.42E01E", "vp8">>

BaselineFirst ==
    <<"avc1.42E01E", "vp8", "avc1.64001E", "vp09.00.10.08", "hev1.1.6.L93.B0", "av01.0.05M.08">>

\* WebCodecsHandler.getBestCodec: the codec returned, or the message of the error
\* thrown.  The default of preferQuality is true.
getBestCodec(supportedCodecs, requirements) ==
    LET preferQuality == requirements.preferQuality \in {"undefined", "true"}
    IN  IF requirements.preferredCodec \in supportedCodecs THEN requirements.preferredCodec
        ELSE FirstSupported(IF preferQuality THEN QualityFirst ELSE BaselineFirst, supportedCodecs)

Codec_GetBest ==
    /\ codecChoice.pc = "asked"
    /\ codecChoice' = [codecChoice EXCEPT !.pc = "answered",
                          !.result = getBestCodec(codecChoice.supportedCodecs,
                                                  codecChoice.requirements)]
    /\ UNCHANGED <<coreVars, extraVars, canvasManager, videoRecorder, strategyChoice>>

InitCodec ==
    /\ codecChoice \in [pc : {"asked"}, supportedCodecs : SUBSET DetectedCodecs,
                        requirements : Requirements, result : {"none"}]
    /\ ServiceUnusedBut("codecChoice")
    /\ CoreUnused
    /\ ManagerUnused
    /\ TesterUnused
    /\ PngUnused

NextCodec == Codec_GetBest

SpecCodec == InitCodec /\ [][NextCodec]_vars

(***************************************************************************)
(* exportCanvasAsVideo of videoRecorder.js: a VideoRecorder, the           *)
(* MediaRecorder it drives and the timer that ends the recording.          *)
(***************************************************************************)

MaxChunks == 2

\* the list of getSupportedMimeType, the preferred type being the default vp9
MimeTypes ==
    <<"video/webm;codecs=vp9", "video/webm;codecs=vp9", "video/webm;codecs=vp8", "video/webm",
      "video/mp4;codecs=h264", "video/mp4">>

\* what MediaRecorder.isTypeSupported accepts in the browsers modelled
MimeSupport == SUBSET {"video/webm;codecs=vp9", "video/webm", "video/mp4"}

\* VideoRecorder.getSupportedMimeType: the type, or "none" where it throws
RECURSIVE getSupportedMimeType(_, _)
getSupportedMimeType(types, supported) ==
    IF types = <<>> THEN "none"
    ELSE IF Head(types) \in supported THEN Head(types)
    ELSE getSupportedMimeType(Tail(types), supported)

NoBlob == [type |-> "none", chunks |-> 0]

\* mediaRecorder: "null", or the state of the MediaRecorder; recordedChunks: how many
\* chunks were pushed; stopQueued: the task that fires dataavailable and stop is
\* queued; started, errored: the recording began, the MediaRecorder reported an error
NewVideoRecorder ==
    [pc |-> "new", mediaRecorder |-> "null", mimeType |-> "none", recordedChunks |-> 0,
     isRecording |-> FALSE, stream |-> FALSE, timer |-> "none", stopQueued |-> FALSE,
     out |-> "pending", blob |-> NoBlob, error |-> "none", started |-> FALSE,
     errored |-> FALSE]

\* the recording is stopped only if a chunk has arrived
Video_stopRecording_ifChunks(v, throws) ==
    IF v.mediaRecorder # "null" /\ v.isRecording /\ v.recordedChunks > 0
    THEN IF v.mediaRecorder = "inactive" /\ throws THEN v
         ELSE [v EXCEPT !.stopQueued = @ \/ v.mediaRecorder = "recording",
                        !.mediaRecorder = "inactive", !.isRecording = FALSE, !.stream = FALSE]
    ELSE v

\* VideoRecorder.stopRecording.  MediaRecorder.stop() on a recorder that is inactive
\* does nothing or throws InvalidStateError, by the browser (throws).
Video_stopRecording(v, throws) ==
    IF v.mediaRecorder # "null" /\ v.isRecording
    THEN IF v.mediaRecorder = "inactive" /\ throws THEN v
         ELSE [v EXCEPT !.stopQueued = @ \/ v.mediaRecorder = "recording",
                        !.mediaRecorder = "inactive", !.isRecording = FALSE, !.stream = FALSE]
    ELSE v

\* VideoRecorder.startRecording, which has no await: it runs to its end inside
\* exportCanvasAsVideo.  starts: mediaRecorder.start(100) does not throw.
Video_startRecording(v, canvas, supported, starts) ==
    LET mimeType == getSupportedMimeType(MimeTypes, supported)
    IN  IF canvas # "html-canvas"
        THEN [v EXCEPT !.out = "rejected",
                       !.error = "Failed to start video recording: canvas.captureStream is not a function"]
        ELSE IF mimeType = "none"
        THEN [v EXCEPT !.stream = TRUE, !.out = "rejected",
                       !.error = "Failed to start video recording: No supported video mime type found"]
        ELSE IF ~starts
        THEN [v EXCEPT !.stream = TRUE, !.mediaRecorder = "inactive", !.mimeType = mimeType,
                       !.out = "rejected", !.error = "start"]
        ELSE [v EXCEPT !.stream = TRUE, !.mediaRecorder = "recording", !.mimeType = mimeType,
                       !.isRecording = TRUE, !.started = TRUE]

\* exportCanvasAsVideo(canvas, duration, options): isSupported, startRecording, setTimeout
Video_Export ==
    /\ videoRecorder.pc = "new"
    /\ \E canvas \in {"html-canvas", "offscreen-canvas"}, isSupported \in BOOLEAN,
          starts \in BOOLEAN :
        videoRecorder' =
            IF ~isSupported
            THEN [videoRecorder EXCEPT !.pc = "running", !.out = "rejected",
                      !.error = "Video recording is not supported in this browser"]
            ELSE [Video_startRecording(videoRecorder, canvas, videoRecorder.supported, starts)
                      EXCEPT !.pc = "running", !.timer = "pending"]
    /\ UNCHANGED <<coreVars, extraVars, canvasManager, codecChoice, strategyChoice>>

\* mediaRecorder.ondataavailable while the recorder records, every 100 ms
Video_DataAvailable ==
    /\ videoRecorder.pc = "running"
    /\ videoRecorder.mediaRecorder = "recording"
    /\ \E size \in {0, 1} :
        /\ videoRecorder.recordedChunks + size <= MaxChunks
        /\ videoRecorder' = [videoRecorder EXCEPT !.recordedChunks = @ + size]
    /\ UNCHANGED <<coreVars, extraVars, canvasManager, codecChoice, strategyChoice>>

\* the MediaRecorder fails: it becomes inactive, fires error (mediaRecorder.onerror
\* rejects) and queues dataavailable and stop
Video_Error ==
    /\ videoRecorder.pc = "running"
    /\ videoRecorder.mediaRecorder = "recording"
    /\ videoRecorder' = [videoRecorder EXCEPT !.mediaRecorder = "inactive", !.stopQueued = TRUE,
                            !.errored = TRUE,
                            !.out = IF @ = "pending" THEN "rejected" ELSE @,
                            !.error = IF videoRecorder.out = "pending" THEN "recorder" ELSE @]
    /\ UNCHANGED <<coreVars, extraVars, canvasManager, codecChoice, strategyChoice>>

\* the timer of exportCanvasAsVideo fires after duration: recorder.stopRecording()
Video_Timeout ==
    /\ videoRecorder.pc = "running"
    /\ videoRecorder.timer = "pending"
    /\ \E throws \in BOOLEAN :
        videoRecorder' = [Video_stopRecording(videoRecorder, throws) EXCEPT !.timer = "fired"]
    /\ UNCHANGED <<coreVars, extraVars, canvasManager, codecChoice, strategyChoice>>

\* the queued task: a last dataavailable with what was recorded since the previous
\* one, then mediaRecorder.onstop builds the blob and resolves
Video_Stopped ==
    /\ videoRecorder.pc = "running"
    /\ videoRecorder.stopQueued
    /\ \E size \in {0, 1} :
        LET chunks == videoRecorder.recordedChunks + size
        IN  /\ chunks <= MaxChunks
            /\ videoRecorder' =
                   [videoRecorder EXCEPT !.stopQueued = FALSE, !.recordedChunks = chunks,
                        !.blob = [type |-> videoRecorder.mimeType, chunks |-> chunks],
                        !.out = IF @ = "pending" THEN "resolved" ELSE @]
    /\ UNCHANGED <<coreVars, extraVars, canvasManager, codecChoice, strategyChoice>>

InitVideo ==
    /\ videoRecorder \in {[supported |-> supported] @@ NewVideoRecorder : supported \in MimeSupport}
    /\ ServiceUnusedBut("videoRecorder")
    /\ CoreUnused
    /\ ManagerUnused
    /\ TesterUnused
    /\ PngUnused

NextVideo ==
    \/ Video_Export
    \/ Video_DataAvailable
    \/ Video_Error
    \/ Video_Timeout
    \/ Video_Stopped

SpecVideo == InitVideo /\ [][NextVideo]_vars

(***************************************************************************)
(* EnhancedGIFExporter.selectRecordingStrategy, called twice for one       *)
(* validated canvas in one environment, with any options.                  *)
(***************************************************************************)

\* validation.type
ValidatedTypes == {"html-canvas", "offscreen-canvas", "canvas-context", "webgl-context"}

Strategy_Select ==
    /\ strategyChoice.pc \in {"fresh", "once"}
    /\ \E options \in RecordingOptions :
        LET built == StrategyList(strategyChoice.type, strategyChoice.features)
        IN  strategyChoice' =
                [strategyChoice EXCEPT !.pc = IF @ = "fresh" THEN "once" ELSE "twice",
                                       !.lists = Append(@, built),
                                       !.returned = Append(@, Head(built))]
    /\ UNCHANGED <<coreVars, extraVars, canvasManager, videoRecorder, codecChoice>>

InitStrategy ==
    /\ strategyChoice \in [pc : {"fresh"}, type : ValidatedTypes, features : Features,
                           lists : {<<>>}, returned : {<<>>}]
    /\ ServiceUnusedBut("strategyChoice")
    /\ CoreUnused
    /\ ManagerUnused
    /\ TesterUnused
    /\ PngUnused

NextStrategy == Strategy_Select

SpecStrategy == InitStrategy /\ [][NextStrategy]_vars

(***************************************************************************)
(* Claims about the ExportManager.                                         *)
(***************************************************************************)
Animated == {"gif", "mp4"}

Settled(f) == f.out \in {"resolved", "rejected"}

Occurrences(s, x) == Cardinality({i \in DOMAIN s : s[i] = x})

\* the call is over and none of the exporters it ran has given it a blob
StrategiesExhausted(f) ==
    /\ f.op \in Animated
    /\ f.tried # <<>>
    /\ Settled(f)
    /\ f.blob = "none"

\* C1: when every GIF strategy tried by exportGIF, or every video strategy tried by
\* exportMP4, has failed, the call does not reject: it resolves with a PNG still frame
\* reported in the format "png".
C1_ExhaustedFallsBackToPNG ==
    \A c \in DOMAIN calls :
        StrategiesExhausted(calls[c]) =>
            calls[c].out = "resolved" /\ calls[c].format = "png"

\* C2: an exportGIF call always settles: it never reaches a point where its promise
\* is pending and no callback is left that could resolve or reject it.
C2_ExportGIFNeverPendingForever ==
    \A c \in DOMAIN calls :
        calls[c].op = "gif" => calls[c].pc # "hung"

\* C5: within one exportGIF call no exporter runs more than once.
C5_NoExporterRunsTwice ==
    \A c \in DOMAIN calls :
        calls[c].op = "gif" =>
            \A x \in Range(calls[c].tried) : Occurrences(calls[c].tried, x) = 1

\* the EnhancedGIFExporter of the call has failed and exportCanvasAsAdvancedGIF has
\* turned to exportCanvasAsGIF
EnhancedGivenUp(f) == f.op = "gif" /\ f.stdRun >= 1

\* C6: before the enhanced export is given up, every strategy of the list built by
\* selectRecordingStrategy has been attempted in order, frame-capture last.
C6_AllStrategiesAttemptedBeforeGivingUp ==
    \A c \in DOMAIN calls :
        EnhancedGivenUp(calls[c]) => calls[c].attempted = calls[c].strategies

\* C7: during one GIF export the progress values reported through the callback are
\* non-decreasing and lie in [0,1], and the values stored from them in the job's
\* progress field are non-decreasing (the claim, with the range read on the fractions
\* the exporters report; the job holds them as percentages).
C7_ProgressMonotone ==
    \A c \in DOMAIN calls :
        calls[c].op = "gif" =>
            /\ IsNonDecreasing(calls[c].reported)
            /\ \A p \in Range(calls[c].reported) : 0 <= p /\ p <= Scale
            /\ IsNonDecreasing(manager.exportInfo[calls[c].id].stored)

Recorded(m, id) == id \in Range(m.exportHistory)

Final(m, id) == m.exportInfo[id].status \in {"completed", "failed"}

C8_Bookkeeping ==
    /\ \A c \in DOMAIN calls :
          Settled(calls[c]) =>
             /\ calls[c].id \notin manager.activeExports
             /\ Final(manager, calls[c].id)
             /\ \/ Occurrences(manager.exportHistory, calls[c].id) = 1
                \/ /\ ~Recorded(manager, calls[c].id)
                   /\ Len(manager.exportHistory) = maxHistorySize
    /\ manager.activeExports \cap Range(manager.exportHistory) = {}
    /\ \A id \in Range(manager.exportHistory) : Final(manager, id)

C8_Recording ==
    /\ \A id \in Range(manager.exportHistory) :
          manager'.exportInfo[id].status = manager.exportInfo[id].status
    /\ \A id \in Range(manager'.exportHistory) \ Range(manager.exportHistory) :
          id \in manager.activeExports /\ id \notin manager'.activeExports

\* C8: an export whose call settles is recorded exactly once in exportHistory, as
\* completed or failed, and leaves activeExports in the step that records it; no job is
\* in activeExports and in exportHistory at once; a recorded status never changes.
C8_SettledExportsRecordedOnce == []C8_Bookkeeping /\ [][C8_Recording]_vars

\* one export is recorded while another one is still in flight
C8_Witness ==
    \E c, d \in DOMAIN calls :
        /\ Settled(calls[c]) /\ Recorded(manager, calls[c].id)
        /\ calls[d].out = "pending" /\ calls[d].id \in manager.activeExports

\* the step records an export: the new exportHistory is the job followed by the old
\* one, without its last entry when the old one was full
HistoryShifted(old, new) ==
    /\ Len(new) = Min(Len(old) + 1, maxHistorySize)
    /\ new[1] \notin Range(old)
    /\ \A i \in 2..Len(new) : new[i] = old[i - 1]

\* C10: exportHistory holds at most maxHistorySize entries, most recent first: a job
\* that finishes is put at index 0, and the oldest entry is dropped when the cap is
\* exceeded.
C10_HistoryCappedNewestFirst ==
    /\ [](Len(manager.exportHistory) <= maxHistorySize)
    /\ [][/\ manager'.exportHistory # manager.exportHistory =>
                HistoryShifted(manager.exportHistory, manager'.exportHistory)
          /\ \A id \in manager.activeExports \ manager'.activeExports :
                manager'.exportHistory[1] = id]_vars

\* the history is full and the first export made has been dropped from it
C10_Witness ==
    /\ Len(manager.exportHistory) = maxHistorySize
    /\ Len(manager.exportInfo) > maxHistorySize
    /\ ~Recorded(manager, 1)
    /\ Final(manager, 1)

(***************************************************************************)
(* Claims about the CanvasExportSystem of exportTester.js.                 *)
(***************************************************************************)
\* the input of the call cannot be resolved to a canvas, or the canvas is tainted
UnusableInput(f) == resolveCanvasWithValidation(f.input) # "none"

\* C3: when the input cannot be resolved to a canvas or the canvas is tainted, exportGIF
\* and exportMP4 start no PNG export job for the call.
C3_UnusableInputStartsNoPNGJob ==
    (testerCall.op \in Animated /\ UnusableInput(testerCall)) => testerCall.png = 0

\* exportGIF / exportMP4 is over, its canvas was resolved, and its animated path failed
AnimatedPathFailed(f) ==
    /\ f.op \in Animated
    /\ f.pc = "done"
    /\ ~UnusableInput(f)
    /\ testerSystem.exportInfo[f.id].status = "failed"

\* C4: when the animated path of exportGIF / exportMP4 fails after the canvas was
\* resolved, the call resolves with format png, fallback true and originalError the
\* message of that error if the PNG export succeeds, and rejects with a single error
\* if the PNG export fails.
C4_AnimatedFailureFallsBackToPNG ==
    AnimatedPathFailed(testerCall) =>
        /\ testerCall.png \in DOMAIN testerSystem.exportInfo
        /\ testerSystem.exportInfo[testerCall.png].status \in {"completed", "failed"}
        /\ testerSystem.exportInfo[testerCall.png].status = "completed" =>
              /\ testerCall.out = "resolved"
              /\ testerCall.format = "png"
              /\ testerCall.fallback
              /\ testerCall.originalError = testerSystem.exportInfo[testerCall.id].error
        /\ testerSystem.exportInfo[testerCall.png].status = "failed" =>
              /\ testerCall.out = "rejected"
              /\ Len(testerCall.thrown) = 1

\* a recording that ended in an error event was replaced by a PNG
C4_Witness ==
    /\ AnimatedPathFailed(testerCall)
    /\ testerCall.op = "mp4"
    /\ testerSystem.exportInfo[testerCall.png].status = "completed"
    /\ testerCall.originalError = NoMessage

(***************************************************************************)
(* Claims about the CanvasExportSystem of canvasExportSystem.js.           *)
(***************************************************************************)
\* C9: after any sequence of exports, successful or failed, exportHistory never holds
\* more than maxHistorySize entries.
C9_PngHistoryBounded == Len(pngSystem.exportHistory) <= PNG_maxHistorySize

(***************************************************************************)
(* Claims about the resolution of canvas inputs.                           *)
(***************************************************************************)
\* the hop limit of a resolution
HopLimit == maxSteps

\* the number of wrappers between the input and a concrete canvas, when it holds one
HoldsCanvas(r) == r.end \in Canvases

\* the input is a reference cycle or a wrapper chain deeper than the hop limit
Unbounded(r) == r.end = "cycle" \/ r.depth > HopLimit

ResolvedBy(who) == resolution.by = who

\* C11: resolveCanvasReference performs at most 10 unwrap steps on every input, and
\* returns a failure for a reference cycle and for a wrapper chain deeper than the hop
\* limit.
C11_ResolverStopsAtHopLimit ==
    ResolvedBy("resolver") =>
        /\ resolution.result.hops <= HopLimit
        /\ Unbounded(resolution.input) => ~resolution.result.success

\* C12: analyzeResolution succeeds for every concrete canvas reachable from the input
\* through at most 10 wrapper hops, exactly 10 included.
C12_DebuggerFindsCanvasWithinHopLimit ==
    (/\ ResolvedBy("debugger")
     /\ HoldsCanvas(resolution.input)
     /\ resolution.input.depth <= HopLimit) =>
        /\ resolution.result.success
        /\ resolution.result.finalCanvas = resolution.input.end

\* C13: the recorded resolution path has one entry per unwrap hop: a successful
\* resolution of a canvas held depth wrappers deep records a path of length depth
\* (0 for a concrete canvas, 2 for {current: {current: canvas}}).
C13_PathHasOneEntryPerHop ==
    (ResolvedBy("debugger") /\ resolution.result.success) =>
        Len(resolution.result.steps) = resolution.input.depth

(***************************************************************************)
(* Claims about validation                                                 *)
(***************************************************************************)

\* the validators that hand back a result object instead of throwing
Reporting == {"validateResolvedCanvas", "getValidatedCanvas", "validateCanvas"}

\* the value the validator was given is a canvas
GivenCanvas == NodeValue(validation.input.ref, 0) \in Canvases

LoopOver == recorder.pc \in {"encoding", "fallback", "done"}

Cancelled == recorder.stoppedAt >= 0

\* min(floor(durationMs / 1000 * fps), maxFrames)
TotalFrameCount ==
    Min((recorder.options.duration * recorder.options.fps) \div 1000,
        recorder.options.maxFrames)

\* C16: when not cancelled, recordWithFrameCapture makes exactly
\* min(floor(durationMs / 1000 * fps), maxFrames) extraction attempts, and with no
\* extraction failure it captures exactly that many frames (60 for fps = 30,
\* durationMs = 2000, maxFrames = 120).
C16_AttemptsAreTotalFrameCount ==
    (LoopOver /\ ~Cancelled) =>
        /\ recorder.attempts = TotalFrameCount
        /\ recorder.failed = 0 => Len(recorder.frames) = TotalFrameCount

\* C17: an extraction failure at one tick is skipped and the loop goes on with the
\* remaining ticks, so the frames captured are exactly the attempts that succeeded,
\* in order; and the recording fails only when no frame was collected.
C17_FailedTicksSkipped ==
    /\ recorder.pc # "unused" =>
        /\ {recorder.frames[n] : n \in 1..Len(recorder.frames)} = recorder.succeeded
        /\ Len(recorder.frames) = Cardinality(recorder.succeeded)
        /\ \A n \in 1..(Len(recorder.frames) - 1) : recorder.frames[n] < recorder.frames[n + 1]
        /\ (LoopOver /\ ~Cancelled) => recorder.i = recorder.maxFrames
    /\ (recorder.pc = "done" /\ recorder.out # "resolved") => recorder.frames = <<>>

IsPrefix(s, t) == Len(s) <= Len(t) /\ \A n \in 1..Len(s) : s[n] = t[n]

\* C18: when stopRecording() is called while recordWithFrameCapture is capturing, the
\* loop stops at the next tick boundary: no extraction is begun after the stop, at
\* most the one pending at the stop adds its frame, and every frame captured before
\* the stop is still there and is handed to the encoder.
C18_StopKeepsCapturedFrames ==
    Cancelled =>
        /\ recorder.attempts = recorder.stoppedAt
        /\ IsPrefix(recorder.stoppedFrames, recorder.frames)
        /\ Len(recorder.frames) <= Len(recorder.stoppedFrames) + 1
        /\ (LoopOver /\ recorder.frames # <<>>) => recorder.handed = recorder.frames

\* stopped during the wait after the second frame: both frames reached the encoder
C18_Witness ==
    /\ Cancelled
    /\ recorder.maxFrames > 2
    /\ recorder.stoppedFrames = <<0, 1>>
    /\ recorder.pc = "encoding"
    /\ recorder.handed = <<0, 1>>

(***************************************************************************)
(* Claims about the GIFEncoder                                             *)
(***************************************************************************)

\* the call that settled last was given a frame of another size than the first frame
Mismatched ==
    /\ encoder.call.op = "addFrameFromCanvas"
    /\ encoder.call.size # NoSize
    /\ encoder.call.before.frames # <<>>
    /\ encoder.call.size # encoder.call.before.frames[1].size
    /\ encoder.call.error # "All image data extraction strategies failed"

\* C19: exportAsBlob raises an error and returns no bytes when no frame has been
\* added, and addFrameFromCanvas raises an error for a frame whose size differs from
\* the first frame's; in both cases the stored frames, delays, width and height are
\* exactly what they were before.
C19_EncoderErrorsLeaveStateAlone ==
    encoder.pc = "ready" =>
        /\ (encoder.call.op = "exportAsBlob" /\ encoder.call.before.frames = <<>>)
            => encoder.call.threw /\ ~encoder.call.bytes
        /\ Mismatched => encoder.call.threw /\ encoder.call.error = "Frame dimensions mismatch"
        /\ encoder.call.threw => Stored(encoder) = encoder.call.before

\* a 2x1 frame was refused by an encoder holding a 1x1 frame
C19_Witness ==
    /\ encoder.pc = "ready"
    /\ Mismatched
    /\ encoder.call.threw
    /\ Len(encoder.frames) = 1
    /\ encoder.width = 1

SquaredDistance(pixel, colour) ==
    (pixel.r - colour.r) * (pixel.r - colour.r) + (pixel.g - colour.g) * (pixel.g - colour.g)
        + (pixel.b - colour.b) * (pixel.b - colour.b)

\* index is the entry of the 6x6x6 cube nearest to the pixel
NearestCubeIndex(index, pixel) ==
    /\ index \in 1..216
    /\ \A other \in 1..216 :
        SquaredDistance(pixel, generateWebSafeColorTable(index))
            <= SquaredDistance(pixel, generateWebSafeColorTable(other))

\* C20: a pixel with alpha at or above the transparency threshold is mapped to the
\* index of the colour-cube entry nearest to its RGB value, a pixel with alpha below
\* it to the transparent index 0; a frame of one solid colour is that single index.
C20_PixelsMapToNearestCubeEntry ==
    encoder.pc = "ready" =>
        \A n \in 1..Len(encoder.frames) :
            LET frame == encoder.frames[n]
            IN  IF frame.pixel.a < transparencyThreshold
                THEN frame.index = 0
                ELSE NearestCubeIndex(frame.index, frame.pixel)

(***************************************************************************)
(* Claims about the file written by the GIFEncoder.  The file is read back *)
(* the way a decoder reads it.                                             *)
(***************************************************************************)

Generated == encoder.pc = "generated" /\ ~encoder.threw

\* signature, screen descriptor and colour table
HeaderLength == 6 + 7 + 768

\* the Netscape application extension
LoopLength == 3 + 11 + 5

\* where the sub-blocks that start at position at end: the position after the
\* zero-length block, or 0 when a block is cut short
RECURSIVE EndOfSubBlocks(_, _)
EndOfSubBlocks(file, at) ==
    IF at > Len(file) THEN 0
    ELSE IF file[at] = 0 THEN at + 1
    ELSE EndOfSubBlocks(file, at + 1 + file[at])

\* the positions at which the frames of the file start, the trailer's after them; <<>>
\* when what follows position at is not a sequence of well-formed frames and a trailer
RECURSIVE FrameStarts(_, _)
FrameStarts(file, at) ==
    IF at = Len(file) /\ file[at] = 59 THEN <<at>>
    ELSE IF at + 19 > Len(file) \/ file[at] # 33 \/ file[at + 1] # 249 \/ file[at + 2] # 4
            \/ file[at + 7] # 0 \/ file[at + 8] # 44
    THEN <<>>
    ELSE LET end == EndOfSubBlocks(file, at + 19)
             rest == IF end = 0 THEN <<>> ELSE FrameStarts(file, end)
         IN  IF rest = <<>> THEN <<>> ELSE <<at>> \o rest

GifFrameStarts == FrameStarts(encoder.file, HeaderLength + LoopLength + 1)

\* C21: the graphic control extension of every frame has the transparent-colour flag
\* (bit 0 of its packed byte) set and names index 0, the index given to pixels with
\* alpha below the threshold, as the transparent colour.
C21_TransparentFlagSet ==
    Generated =>
        /\ Len(GifFrameStarts) = Len(encoder.frames) + 1
        /\ \A n \in 1..Len(encoder.frames) :
            /\ encoder.file[GifFrameStarts[n] + 3] % 2 = 1
            /\ encoder.file[GifFrameStarts[n] + 6] = 0

\* C22: every value of the indexed data of every frame is an index into the global
\* colour table, in 0..216, and the table written to the file has exactly 256 entries:
\* the screen descriptor announces 2^(7+1) colours and 768 bytes follow it.
C22_IndicesWithinColourTable ==
    encoder.pc \in {"filled", "generated"} =>
        /\ \A n \in 1..Len(encoder.frames) :
            \A k \in 1..Len(IndexedData(encoder.frames[n])) :
                IndexedData(encoder.frames[n])[k] \in 0..216
        /\ Generated =>
            /\ encoder.file[11] % 8 = 7
            /\ encoder.file[11] \div 128 = 1
            /\ SubSeq(encoder.file, 14, HeaderLength) = WebSafeColorTable
            /\ Len(WebSafeColorTable) = 3 * 256
            /\ SubSeq(encoder.file, HeaderLength + 1, HeaderLength + 3) = <<33, 255, 11>>

\* a white opaque frame, index 216, in a generated file
C22_Witness ==
    /\ Generated
    /\ \E n \in 1..Len(encoder.frames) : encoder.frames[n].index = 216

\* the lengths of the sub-blocks that start at position at
RECURSIVE SubBlockLengths(_, _)
SubBlockLengths(file, at) ==
    IF at > Len(file) \/ file[at] = 0 THEN <<>>
    ELSE <<file[at]>> \o SubBlockLengths(file, at + 1 + file[at])

\* C23: for N >= 1 frames the file is, in this order: 'GIF89a', a screen descriptor
\* with the width and height of the frames, a 768-byte global colour table, one
\* Netscape loop extension with loop count 0, then for each of the N frames a graphic
\* control extension, an image descriptor and the image data in sub-blocks of 1 to 255
\* bytes that hold every pixel and are closed by a zero-length block, and at the end
\* one trailer byte 0x3B.
C23_FileLayout ==
    Generated =>
        /\ SubSeq(encoder.file, 1, 6) = Signature
        /\ SubSeq(encoder.file, 7, 10) = uint16ToBytes(encoder.width) \o uint16ToBytes(encoder.height)
        /\ SubSeq(encoder.file, HeaderLength + 1, HeaderLength + LoopLength)
              = <<33, 255, 11>> \o Netscape \o <<3, 1, 0, 0, 0>>
        /\ Len(GifFrameStarts) = Len(encoder.frames) + 1
        /\ \A n \in 1..Len(encoder.frames) :
            LET at == GifFrameStarts[n]
                lengths == SubBlockLengths(encoder.file, at + 19)
            IN  /\ SubSeq(encoder.file, at + 13, at + 16)
                      = uint16ToBytes(encoder.width) \o uint16ToBytes(encoder.height)
                /\ \A k \in 1..Len(lengths) : lengths[k] \in 1..255
                /\ GifFrameStarts[n + 1] - (at + 19) - Len(lengths) - 1
                      = encoder.width * encoder.height
        /\ encoder.file[Len(encoder.file)] = 59

\* two frames of 255 x 2 pixels, each in two full sub-blocks
C23_Witness ==
    /\ Generated
    /\ Len(encoder.frames) = 2
    /\ encoder.width = 255
    /\ SubBlockLengths(encoder.file, GifFrameStarts[2] + 19) = <<255, 255>>

(***************************************************************************)
(* Claims about the CanvasContextManager.                                  *)
(***************************************************************************)

Handed == canvasManager.pc = "ready" /\ canvasManager.last.op = "createCanvas"
            /\ canvasManager.last.canvas # 0

\* C24: createCanvas never returns a canvas that was in the active set when it was
\* called: a canvas that was handed out and not yet released is not handed out again.
C24_ActiveCanvasNotHandedOut == Handed => ~canvasManager.last.wasActive

\* a pooled canvas of the asked size was in use, so a second canvas was created
C24_Witness ==
    /\ Handed
    /\ ~canvasManager.last.reused
    /\ \E other \in canvasManager.activeCanvases :
        /\ other # canvasManager.last.canvas
        /\ canvasManager.canvasPool[canvasManager.canvases[other].cacheKey] = other
        /\ canvasManager.canvases[other].cacheKey
              = canvasManager.canvases[canvasManager.last.canvas].cacheKey

\* C25: a canvas that createCanvas takes from the pool is, when it is taken, at most
\* staleAfter (5 minutes) old and at most poolCeiling (4 MB) large.
C25_ReusedCanvasFreshAndSmall ==
    Handed /\ canvasManager.last.reused =>
        LET key == canvasManager.canvases[canvasManager.last.canvas].cacheKey
        IN  /\ canvasManager.last.age <= staleAfter
            /\ key.width * key.height * 4 <= poolCeiling

(***************************************************************************)
(* Claims about the MP4 conversion of exportMP4.                           *)
(***************************************************************************)

\* the conversion of the WebM blob of call c ends in this step without an MP4 blob
ConversionFailed(c) ==
    /\ calls[c].pc = "converting"
    /\ calls'[c].pc # "converting"
    /\ calls'[c].blob # "mp4"

C26_KeepsWebM(c) ==
    ConversionFailed(c) =>
        /\ calls'[c].out = "resolved"
        /\ calls'[c].format = "webm"
        /\ calls'[c].blob = "webm"
        /\ manager'.exportInfo[calls[c].id].status = "completed"
        /\ calls[c].id \notin manager'.activeExports

\* C26: when the conversion of a recorded WebM blob to MP4 throws or gives no MP4 blob,
\* exportMP4 resolves in that step with the WebM blob and the format "webm", and the
\* export is completed.
C26_FailedConversionKeepsWebM == [][\A c \in DOMAIN calls : C26_KeepsWebM(c)]_vars

\* an exportMP4 call that resolved with the WebM blob it recorded
C26_Witness ==
    \E c \in DOMAIN calls :
        /\ calls[c].op = "mp4"
        /\ calls[c].out = "resolved"
        /\ calls[c].format = "webm"
        /\ manager.exportInfo[calls[c].id].status = "completed"

(***************************************************************************)
(* Claims about WebCodecsHandler.getBestCodec.                             *)
(***************************************************************************)

\* C28: asked without a preferred codec, getBestCodec returns the first supported codec
\* of a fixed priority list, and the list starts with the baseline profiles
\* avc1.42E01E and vp8 unless the requirements explicitly ask for quality.
C28_BaselineFirstUnlessQualityAsked ==
    (/\ codecChoice.pc = "answered"
     /\ codecChoice.requirements.preferredCodec = "undefined") =>
        codecChoice.result =
            FirstSupported(IF codecChoice.requirements.preferQuality = "true"
                           THEN QualityFirst ELSE BaselineFirst,
                           codecChoice.supportedCodecs)

(***************************************************************************)
(* Claims about exportCanvasAsVideo.                                       *)
(***************************************************************************)

\* the recording began and the MediaRecorder has reported no error
RecordingUndisturbed ==
    /\ videoRecorder.pc = "running"
    /\ videoRecorder.started
    /\ ~videoRecorder.errored

\* C27: once the recording has started, it goes on until the timer of the requested
\* duration fires and is stopped then, chunks or no chunks; the promise is not rejected
\* by that, it is pending only while the recorder's stop event is on its way, and it
\* resolves with a blob of the chunks collected.
C27_TimeLimitEndsRecordingWithBlob ==
    RecordingUndisturbed =>
        /\ videoRecorder.out # "rejected"
        /\ videoRecorder.timer = "pending" =>
              videoRecorder.mediaRecorder = "recording" /\ videoRecorder.out = "pending"
        /\ videoRecorder.timer = "fired" =>
              /\ videoRecorder.mediaRecorder = "inactive"
              /\ videoRecorder.out = "pending" => videoRecorder.stopQueued
              /\ videoRecorder.out = "resolved" =>
                    videoRecorder.blob = [type |-> videoRecorder.mimeType,
                                          chunks |-> videoRecorder.recordedChunks]

\* the duration elapsed before any chunk arrived: the promise resolved with an empty blob
C27_Witness ==
    /\ RecordingUndisturbed
    /\ videoRecorder.timer = "fired"
    /\ videoRecorder.out = "resolved"
    /\ videoRecorder.blob.chunks = 0

(***************************************************************************)
(* Claims about EnhancedGIFExporter.selectRecordingStrategy.               *)
(***************************************************************************)

CaptureFailed(c) ==
    /\ calls[c].pc = "rec_wait" /\ calls'[c].pc = "rec_wait"
    /\ calls[c].isRecording
    /\ calls'[c].i = calls[c].i + 1
    /\ calls'[c].frames = calls[c].frames

\* C30: a failed frame extraction is skipped: the CanvasRecorder is still recording
\* after it, so that captureFrame runs again at the next tick.
C30_FailedCaptureKeepsRecording ==
    [][\A c \in DOMAIN calls : CaptureFailed(c) => calls'[c].isRecording]_vars

(***************************************************************************)
(* Claims about the canvases the CanvasContextManager keeps.               *)
(***************************************************************************)

PoolReady == canvasManager.pc = "ready"

\* the step disposes of canvas: disposeCanvas deletes _namelistica and sets the
\* width and height of the canvas to 1
Disposes(canvas) ==
    /\ canvasManager.canvases[canvas].metadata
    /\ ~canvasManager'.canvases[canvas].metadata

\* C32: a canvas in the active set is disposed of, and resized with that, only by the
\* release of that very canvas: never by the periodic sweep, a cleanup under memory
\* pressure or for a hidden page, or the release of another canvas.
C32_ActiveCanvasNotDisposed ==
    [][PoolReady =>
          \A canvas \in canvasManager.activeCanvases :
              Disposes(canvas) =>
                  /\ canvasManager'.last.op = "releaseCanvas"
                  /\ canvasManager'.last.canvas = canvas]_vars

\* C36: a canvas made by createCanvas and not disposed of is in the active set or is
\* the pool entry under its cache key.
C36_CanvasActiveOrPooled ==
    PoolReady =>
        \A canvas \in DOMAIN canvasManager.canvases :
            canvasManager.canvases[canvas].metadata /\ canvasManager.canvases[canvas].keyed =>
                \/ canvas \in canvasManager.activeCanvases
                \/ canvasManager.canvasPool[canvasManager.canvases[canvas].cacheKey] = canvas

\* C37: releaseCanvas of a canvas that createCanvas or createOffscreenCanvas returned
\* and that was not released since returns true, and after it the canvas is not in the
\* active set and is either the pool entry under its key or disposed of.
C37_ReleaseEndsTracking ==
    (/\ PoolReady
     /\ canvasManager.last.op = "releaseCanvas"
     /\ canvasManager.last.wasHeld) =>
        LET canvas == canvasManager.last.canvas
        IN  /\ canvasManager.last.result
            /\ canvas \notin canvasManager.activeCanvases
            /\ \/ /\ canvasManager.canvases[canvas].keyed
                  /\ canvasManager.canvasPool[canvasManager.canvases[canvas].cacheKey] = canvas
               \/ canvas \notin canvasManager.contexts

\* C40: whatever createCanvas, releaseCanvas and cleanup calls were made, the pool
\* holds at most maxPoolSize canvases
C40_PoolWithinMaxPoolSize ==
    canvasManager.pc \in {"ready", "filling"} => PoolSize(canvasManager) <= maxPoolSize

\* ten canvases are pooled and the eleventh, released after them, was disposed of
C40_Witness ==
    /\ canvasManager.pc = "filling"
    /\ Len(canvasManager.canvases) > maxPoolSize
    /\ \A canvas \in 1..maxPoolSize :
          canvasManager.canvasPool[canvasManager.canvases[canvas].cacheKey] = canvas
    /\ ~canvasManager.canvases[maxPoolSize + 1].metadata

\* C31: neither RealGIFExporter.startRecording nor exportGIF of exportTester.js
\* captures more than the default maxFrames of 120 frames, whatever the duration
\* and the fps of the options
C31_AtMostMaxFrames ==
    frameLoop.pc \in {"capturing", "encoding", "png_fallback"} =>
        frameLoop.frames <= DefaultMaxFrames

\* C33: the canvas that resolveCanvasReference returns for an input is the canvas
\* reachable from that input, whatever calls were made before and whatever the clock
\* read; a result cached for one input is not returned for another
C33_ReturnsCanvasOfInput ==
    (resolverCache.pc = "ready" /\ resolverCache.last.input # "none") =>
        resolverCache.last.canvas = resolverCache.last.expected

\* C34: what extractImageData returns shows the canvas it was called with, with the
\* content the canvas has at the time of the call: not a converted copy cached by an
\* earlier call, made of older content or of another canvas of the same type and size
C34_ImageOfCanvasAtCallTime ==
    (converter.pc = "ready" /\ converter.last.input # "none") =>
        converter.last.image = converter.last.shown

\* C35: the format that exportGIF reports is the media type of the blob it returns:
\* 'gif' only with a GIF blob, 'png' only with a PNG blob
C35_FormatMatchesBlob ==
    \A c \in DOMAIN calls :
        (calls[c].op = "gif" /\ calls[c].out = "resolved") =>
            /\ calls[c].format = "gif" => calls[c].blob = "gif"
            /\ calls[c].format = "png" => calls[c].blob = "png"

\* an input made of fewer wrappers than the hop limit around a canvas, null,
\* undefined or a plain object
WithinHopLimit(r) ==
    r.depth < maxSteps /\ r.end \in Canvases \cup {"null", "undefined", "object"}

\* C38: for an input made of wrappers within the hop limit, analyzeResolution and
\* resolveCanvasReference agree on whether a canvas is found and on which canvas it is
C38_DebuggerAgreesWithResolver ==
    (resolution.by # "none" /\ WithinHopLimit(resolution.input)) =>
        LET resolved == resolveCanvasReference(resolution.input, 0, 0)
            analyzed == analyzeResolution(resolution.input)
        IN  /\ resolved.success = analyzed.success
            /\ resolved.canvas = analyzed.finalCanvas

\* C39: once render() was called on an EmbeddedGIF that holds at least one frame,
\* 'finished' is emitted in the end, and never more than once, so that the promise of
\* encodeWithMainLibrary settles
C39_RenderFinishesOnce ==
    /\ [](embeddedGif.finished <= 1)
    /\ (embeddedGif.pc \in {"scheduled", "running"} /\ embeddedGif.frames >= 1) ~>
            (embeddedGif.finished = 1 /\ embeddedGif.settled)

====
